---- MODULE Spec2Model ----
(***************************************************************************)
(* Model of the task-execution core of file-flow-service:                  *)
(*   - ThreadPool   (internal/threadpool, channel based worker pool)       *)
(*   - BaseExecutor (internal/service/executor)                            *)
(*   - taskManager  (internal/taskmanager)                                 *)
(*   - ShutdownManager / RestartManager (internal/shutdown, restart)       *)
(*   - Service.CreateTask, sandboxExecutor, the task manager's monitor,    *)
(*     and the lock-free ThreadPool of internal/threadpool/pool.go         *)
(* Every thread of the program is a tuple <<kind, n>>; a mutex is the      *)
(* thread that holds it, or Free.                                          *)
(***************************************************************************)
EXTENDS Integers, Sequences, FiniteSets, TLC

\* ---------------------------------------------------------------- bounds
MaxWorkers == 2          \* config.Threadpool.MaxWorkers of the modelled run
MaxTasks == 3            \* number of distinct task ids ever submitted
MaxLifeTasks == 1        \* task ids submitted while the orchestrators run
MaxRegistered == 2       \* task ids, and registrations, of the task manager runs

Workers == 1..MaxWorkers
\* The values of Threadpool.MaxWorkers an executor is constructed with: two
\* that NewThreadPool refuses and one it accepts.
MaxWorkersValues == {-1, 0, MaxWorkers}
TaskIds == 1..MaxTasks
RegIds == 1..MaxRegistered
NoTask == 0

MaxConfigVersions == 2   \* distinct contents config/config.yaml takes
MaxCallers == 2          \* goroutines calling Restart, Shutdown or ForceShutdown
TicksPerSecond == 2      \* clock readings that fall within one second
MaxClock == 3            \* last clock tick of the modelled run
MaxCreated == 2          \* CreateTask calls that return an id
MaxSandboxTasks == 4     \* task ids the sandbox executor is called with
SandboxIds == 1..MaxSandboxTasks

MaxLoops == 2            \* monitorLoop goroutines of one manager alive at once
MaxTicks == 2            \* ticks counted per manager
MaxPaths == 2            \* file paths the requests name
MaxRequests == 2         \* concurrent handleFileOperation requests
MaxMutexes == 3          \* mutexes GetLock allocates in the modelled run
Managers == {"taskManager", "processManager"}
Paths == 1..MaxPaths
Requests == 1..MaxRequests
Mutexes == 1..MaxMutexes
NoMutex == 0
NoRequest == 0
\* The ID of a TaskInfo literal that sets no ID: the empty string.
EmptyID == 0

\* ---------------------------------------------------------------- threads
Free == <<"free", 0>>
W(i) == <<"worker", i>>
Stopper == <<"stopper", 0>>
Submitter == <<"submitter", 0>>
T(c) == <<"caller", c>>
Callers == 1..MaxCallers

VARIABLES
    \* ThreadPool
    tpRunning,        \* tp.running
    queueClosed,      \* close(tp.taskQueue) has been executed
    tpMu,             \* tp.mu: the thread holding it, or Free
    wpc,              \* position of every worker goroutine
    wtask,            \* the task a worker took from the queue
    werr,             \* err returned by task.Execute (TRUE = non-nil)
                      \* on this worker; the closure of SubmitTask returns none
    activeWorkers, totalTasks, failedTasks, completedTasks,
    panicked,         \* "no", or the runtime panic that killed the process
    \* BaseExecutor
    ePool,            \* e.pool != nil
    eStatus,          \* e.Status
    eMu,              \* e.mu
    \* callers of the pool and the executor
    stopPc,           \* position of the thread calling Stop
    subPc, subTask,   \* position of the thread inside BaseExecutor.SubmitTask
    fate,             \* what happened to each task handed to Submit
    accepted,         \* tasks for which BaseExecutor.SubmitTask returned nil
    \* taskManager
    tasks,            \* tm.tasks: the registry, task id -> record
    tmMu,             \* tm.mu
    tmTotalTasks,     \* tm.totalTasks
    activeTaskCount,  \* tm.activeTaskCount
    tmErr,            \* error returned by the last task manager call
    \* ShutdownManager / RestartManager
    isRestarting,     \* rm.isRestarting
    isShuttingDown,   \* sm.isShuttingDown
    smCtxDone,        \* sm.ctx has been cancelled (ShutdownManager.Stop)
    lop,              \* the operation each caller invoked last
    lpc,              \* position of each caller inside that operation
    lidx,             \* index into the module list while stopping modules
    timedOut,         \* the 30 s deadline of a thread's waitForActiveTasks passed
    todo,             \* tasks forceTerminateTasks still has to visit
    ldone,            \* steps and module stops each caller's current call has finished
    lerrs,            \* those of them that reported an error (logged by the caller)
    \* config package
    globalConfig,     \* config.GlobalConfig: the version loaded, or NoConfig
    cfgFile,          \* version of config/config.yaml on disk
    cfgMaxWorkers,    \* Threadpool.MaxWorkers of the executor's configuration
    startErr,         \* what the last BaseExecutor.Start returned ("none" before)
    \* Service.CreateTask
    now,              \* the wall clock, in ticks of 1/TicksPerSecond second
    created,          \* the task ids CreateTask has returned, in order
    \* sandboxExecutor
    taskDirectories,  \* se.taskDirectories: the ids with a recorded directory
    fsDirs,           \* the ids whose task directory exists on disk
    seErr,            \* what the last sandboxExecutor call returned
    \* taskManager.monitorLoop
    monPc,            \* position of the monitor inside updateTaskStatus
    monLog,           \* what its last tick logged: <<task_count, active_workers>>
    \* ThreadPool of internal/threadpool/pool.go
    spTotalTasks,     \* p.totalTasks
    spActiveTasks,    \* p.activeTasks
    spCompletedTasks, \* p.completedTasks
    spPc,             \* position of every goroutine inside p.Submit:
                      \* <<statement, "load" or "store">>, or <<0, "idle" or "done">>
    spReg,            \* the counter value that goroutine has loaded
    \* ShutdownManager of part_005
    shutdownChanClosed, \* close(sm.shutdownChan) has run
    \* taskManager and processManager: Start, Stop and monitorLoop
    mgrRunning,       \* running, per manager
    mgrCtxDone,       \* the manager's ctx has been cancelled
    mgrLoops,         \* number of monitorLoop goroutines that have not returned
    mgrTicks,         \* ticks the manager's monitor loops have handled
    \* the ID field of the records in tm.tasks
    recID,            \* task id -> ID of the record stored under it
    \* FileLockManager and Instance.handleFileOperation
    locks,            \* m.locks: path -> mutex, or NoMutex
    nextMutex,        \* the next mutex GetLock allocates
    held,             \* mutex -> the request holding it, or NoRequest
    fpc,              \* position of each request inside handleFileOperation
    fpath,            \* the path of each request
    flock             \* the mutex GetLock returned to each request

poolVars == <<tpRunning, queueClosed, tpMu, wpc, wtask, werr,
              activeWorkers, totalTasks, failedTasks, completedTasks, panicked>>
execVars == <<ePool, eStatus, eMu, startErr>>
callVars == <<stopPc, subPc, subTask, fate, accepted>>
tmVars == <<tasks, tmMu, tmTotalTasks, activeTaskCount, tmErr>>
logVars == <<ldone, lerrs>>
cfgVars == <<globalConfig, cfgFile, cfgMaxWorkers>>
idVars == <<now, created>>
sandboxVars == <<taskDirectories, fsDirs, seErr>>
monVars == <<monPc, monLog>>
spVars == <<spTotalTasks, spActiveTasks, spCompletedTasks, spPc, spReg>>
coreSvcVars == <<idVars, sandboxVars, monVars, spVars>>
sm2Vars == <<shutdownChanClosed>>
mgrVars == <<mgrRunning, mgrCtxDone, mgrLoops, mgrTicks>>
regVars == <<recID>>
lockVars == <<locks, nextMutex, held, fpc, fpath, flock>>
extVars == <<sm2Vars, mgrVars, regVars, lockVars>>
svcVars == <<coreSvcVars, extVars>>
orchVars == <<isRestarting, isShuttingDown, smCtxDone, lop, lpc, lidx, timedOut, todo,
              logVars, cfgVars>>
lifeVars == <<orchVars, svcVars>>
vars == <<poolVars, execVars, callVars, tmVars, lifeVars>>

Alive == panicked = "no"

\* ---------------------------------------------------------------- Init
\* NewExecutor: no pool yet, Status "stopped"; no worker goroutine exists.
InitPool ==
    /\ tpRunning = FALSE
    /\ queueClosed = FALSE
    /\ tpMu = Free
    /\ wpc = [w \in Workers |-> "none"]
    /\ wtask = [w \in Workers |-> NoTask]
    /\ werr = [w \in Workers |-> FALSE]
    /\ activeWorkers = 0
    /\ totalTasks = 0
    /\ failedTasks = 0
    /\ completedTasks = 0
    /\ panicked = "no"

InitExec ==
    /\ ePool = FALSE
    /\ eStatus = "stopped"
    /\ eMu = Free
    /\ startErr = "none"

InitCall ==
    /\ stopPc = "idle"
    /\ subPc = "idle"
    /\ subTask = NoTask
    /\ fate = [t \in TaskIds |-> "new"]
    /\ accepted = {}

\* NewTaskManager: an empty registry, counters zero.
InitTM ==
    /\ tasks = << >>
    /\ tmMu = Free
    /\ tmTotalTasks = 0
    /\ activeTaskCount = 0
    /\ tmErr = "nil"

\* NewRestartManager, NewShutdownManager: flags false, context live.
InitLife ==
    /\ isRestarting = FALSE
    /\ isShuttingDown = FALSE
    /\ smCtxDone = FALSE
    /\ lop = [c \in Callers |-> "none"]
    /\ lpc = [c \in Callers |-> "idle"]
    /\ lidx = [c \in Callers |-> 0]
    /\ timedOut = [c \in Callers |-> FALSE]
    /\ todo = [c \in Callers |-> {}]
    /\ ldone = [c \in Callers |-> << >>]
    /\ lerrs = [c \in Callers |-> {}]

\* main (part_003:18-23): config.InitConfig has loaded the file before any
\* service object exists.
\* The executor is constructed with a configuration whose
\* Threadpool.MaxWorkers is one of MaxWorkersValues.
InitConfigState ==
    /\ cfgFile = 1
    /\ globalConfig = cfgFile
    /\ cfgMaxWorkers \in MaxWorkersValues

\* The process has just started: no id issued yet.
InitIds ==
    /\ now = 0
    /\ created = << >>

\* NewSandboxExecutor and Initialize: no task directory recorded or on disk.
InitSandbox ==
    /\ taskDirectories = {}
    /\ fsDirs = {}
    /\ seErr = "none"

\* The monitor goroutine waits for its first tick.
InitMonitor ==
    /\ monPc = "idle"
    /\ monLog = << >>

\* pool.go NewThreadPool: counters zero, no Submit in progress.
InitSyncPool ==
    /\ spTotalTasks = 0
    /\ spActiveTasks = 0
    /\ spCompletedTasks = 0
    /\ spPc = [c \in Callers |-> <<0, "idle">>]
    /\ spReg = [c \in Callers |-> 0]

\* part_005 NewShutdownManager: shutdownChan made, open.
InitShutdownV2 == shutdownChanClosed = FALSE

\* NewTaskManager (task_manager.go:154-164) and NewProcessManager
\* (process_manager.go:114-123): ctx, cancel := context.WithCancel(...), running
\* false, no goroutine.
InitManagers ==
    /\ mgrRunning = [m \in Managers |-> FALSE]
    /\ mgrCtxDone = [m \in Managers |-> FALSE]
    /\ mgrLoops = [m \in Managers |-> 0]
    /\ mgrTicks = [m \in Managers |-> 0]

\* The registry is empty.
InitRegistry == recID = << >>

\* NewFileLockManager (lock.go:14-18): an empty map; no request in progress.
InitLocks ==
    /\ locks = [p \in Paths |-> NoMutex]
    /\ nextMutex = 1
    /\ held = [x \in Mutexes |-> NoRequest]
    /\ fpc = [r \in Requests |-> "idle"]
    /\ fpath = [r \in Requests |-> 1]
    /\ flock = [r \in Requests |-> NoMutex]

InitService ==
    /\ InitIds /\ InitSandbox /\ InitMonitor /\ InitSyncPool
    /\ InitShutdownV2 /\ InitManagers /\ InitRegistry /\ InitLocks

Init ==
    /\ InitPool /\ InitExec /\ InitCall /\ InitTM /\ InitLife /\ InitConfigState
    /\ InitService

\* Task ids are interchangeable: callers use them in increasing order.
NextTask(t) == fate[t] = "new" /\ \A u \in TaskIds : u < t => fate[u] # "new"

\* ---------------------------------------------------------------- ThreadPool
\* IsRunning takes tp.mu.RLock: it blocks while a writer holds tp.mu.
IsRunningReady == tpMu = Free
IsRunning == tpRunning

\* NewThreadPool with the check of lines 46-48 left out.
NewThreadPool_NoValidation(maxWorkers) == [err |-> "nil", pool |-> TRUE]

\* NewThreadPool (part_007:45-56): a validation error and a nil pool when
\* maxWorkers <= 0, otherwise a pool that is not running yet.
NewThreadPool(maxWorkers) ==
    IF maxWorkers <= 0
    THEN [err |-> "maxWorkers must be greater than 0", pool |-> FALSE]
    ELSE [err |-> "nil", pool |-> TRUE]

\* NewThreadPool followed by Start: a fresh pool object, whose Start loop
\* `for i := 0; i < tp.maxWorkers; i++` has parked maxWorkers workers on the
\* empty unbuffered queue.
NewStartedPool ==
    /\ tpRunning' = TRUE
    /\ queueClosed' = FALSE
    /\ tpMu' = Free
    /\ wpc' = [w \in Workers |-> IF w <= cfgMaxWorkers THEN "recv" ELSE "none"]
    /\ wtask' = [w \in Workers |-> NoTask]
    /\ werr' = [w \in Workers |-> FALSE]
    /\ activeWorkers' = 0
    /\ totalTasks' = 0
    /\ failedTasks' = 0
    /\ completedTasks' = 0
    /\ UNCHANGED panicked

\* Submit: select { case tp.taskQueue <- task: ...; default: ... }.
\* The queue is unbuffered: the send succeeds only if a worker is parked in
\* the receive; a send on a closed channel panics.
Submit(t) ==
    IF queueClosed
    THEN /\ panicked' = "send on closed channel"
         /\ UNCHANGED <<wpc, wtask, fate>>
    ELSE /\ UNCHANGED panicked
         /\ \/ \E w \in Workers :
                 /\ wpc[w] = "recv"
                 /\ wpc' = [wpc EXCEPT ![w] = "got"]
                 /\ wtask' = [wtask EXCEPT ![w] = t]
                 /\ fate' = [fate EXCEPT ![t] = "handed"]
            \/ /\ \A w \in Workers : wpc[w] # "recv"
               /\ fate' = [fate EXCEPT ![t] = "dropped"]
               /\ UNCHANGED <<wpc, wtask>>

\* worker: `for task := range tp.taskQueue` ends when the queue is closed.
WorkerExit(w) ==
    /\ Alive
    /\ wpc[w] = "recv"
    /\ queueClosed
    /\ wpc' = [wpc EXCEPT ![w] = "exited"]
    /\ UNCHANGED <<tpRunning, queueClosed, tpMu, wtask, werr, activeWorkers,
                   totalTasks, failedTasks, completedTasks, panicked>>
    /\ UNCHANGED <<execVars, callVars>>
    /\ UNCHANGED tmVars
    /\ UNCHANGED lifeVars

\* worker lines 90-91: tp.mu.Lock(); tp.activeWorkers++
WorkerBeginLock(w) ==
    /\ Alive
    /\ wpc[w] = "got"
    /\ tpMu = Free
    /\ tpMu' = W(w)
    /\ activeWorkers' = activeWorkers + 1
    /\ wpc' = [wpc EXCEPT ![w] = "counting"]
    /\ UNCHANGED <<tpRunning, queueClosed, wtask, werr,
                   totalTasks, failedTasks, completedTasks, panicked>>
    /\ UNCHANGED <<execVars, callVars>>
    /\ UNCHANGED tmVars
    /\ UNCHANGED lifeVars

\* worker lines 92-93: tp.totalTasks++; tp.mu.Unlock()
WorkerBeginUnlock(w) ==
    /\ Alive
    /\ wpc[w] = "counting"
    /\ totalTasks' = totalTasks + 1
    /\ tpMu' = Free
    /\ wpc' = [wpc EXCEPT ![w] = "exec"]
    /\ UNCHANGED <<tpRunning, queueClosed, wtask, werr,
                   activeWorkers, failedTasks, completedTasks, panicked>>
    /\ UNCHANGED <<execVars, callVars>>
    /\ UNCHANGED tmVars
    /\ UNCHANGED lifeVars

\* worker line 100: err := task.Execute(ctx) for a ScriptTask: the command
\* succeeds, or fails / is killed at the deadline (err != nil).
WorkerExecute(w) ==
    /\ Alive
    /\ wpc[w] = "exec"
    /\ \E err \in BOOLEAN : werr' = [werr EXCEPT ![w] = err]
    /\ wpc' = [wpc EXCEPT ![w] = "returned"]
    /\ fate' = [fate EXCEPT ![wtask[w]] = "executed"]
    /\ UNCHANGED <<tpRunning, queueClosed, tpMu, wtask,
                   activeWorkers, totalTasks, failedTasks, completedTasks, panicked>>
    /\ UNCHANGED <<execVars, stopPc, subPc, subTask, accepted>>
    /\ UNCHANGED tmVars
    /\ UNCHANGED lifeVars

\* Faulty variant of WorkerEndLock: the worker forgets tp.activeWorkers--.
WorkerEndLock_NoDecrement(w) ==
    /\ Alive
    /\ wpc[w] = "returned"
    /\ tpMu = Free
    /\ tpMu' = W(w)
    /\ wpc' = [wpc EXCEPT ![w] = "recording"]
    /\ UNCHANGED <<tpRunning, queueClosed, wtask, werr, activeWorkers,
                   totalTasks, failedTasks, completedTasks, panicked>>
    /\ UNCHANGED <<execVars, callVars>>
    /\ UNCHANGED tmVars
    /\ UNCHANGED lifeVars

\* worker lines 103-104: tp.mu.Lock(); tp.activeWorkers--
WorkerEndLock(w) ==
    /\ Alive
    /\ wpc[w] = "returned"
    /\ tpMu = Free
    /\ tpMu' = W(w)
    /\ activeWorkers' = activeWorkers - 1
    /\ wpc' = [wpc EXCEPT ![w] = "recording"]
    /\ UNCHANGED <<tpRunning, queueClosed, wtask, werr,
                   totalTasks, failedTasks, completedTasks, panicked>>
    /\ UNCHANGED <<execVars, callVars>>
    /\ UNCHANGED tmVars
    /\ UNCHANGED lifeVars

\* Faulty variant of WorkerEndUnlock: a failed execution is not counted.
WorkerEndUnlock_FailureUncounted(w) ==
    /\ Alive
    /\ wpc[w] = "recording"
    /\ IF werr[w]
       THEN UNCHANGED <<failedTasks, completedTasks>>
       ELSE completedTasks' = completedTasks + 1 /\ UNCHANGED failedTasks
    /\ tpMu' = Free
    /\ wpc' = [wpc EXCEPT ![w] = "recv"]
    /\ wtask' = [wtask EXCEPT ![w] = NoTask]
    /\ werr' = [werr EXCEPT ![w] = FALSE]
    /\ UNCHANGED <<tpRunning, queueClosed, activeWorkers, totalTasks, panicked>>
    /\ UNCHANGED <<execVars, callVars>>
    /\ UNCHANGED tmVars
    /\ UNCHANGED lifeVars

\* worker lines 105-112: failedTasks++ or completedTasks++; tp.mu.Unlock();
\* then back to the receive of the range loop.
WorkerEndUnlock(w) ==
    /\ Alive
    /\ wpc[w] = "recording"
    /\ IF werr[w]
       THEN failedTasks' = failedTasks + 1 /\ UNCHANGED completedTasks
       ELSE completedTasks' = completedTasks + 1 /\ UNCHANGED failedTasks
    /\ tpMu' = Free
    /\ wpc' = [wpc EXCEPT ![w] = "recv"]
    /\ wtask' = [wtask EXCEPT ![w] = NoTask]
    /\ werr' = [werr EXCEPT ![w] = FALSE]
    /\ UNCHANGED <<tpRunning, queueClosed, activeWorkers, totalTasks, panicked>>
    /\ UNCHANGED <<execVars, callVars>>
    /\ UNCHANGED tmVars
    /\ UNCHANGED lifeVars

\* Stop, lines 128-139: tp.mu.Lock(); if !tp.running return; close(taskQueue).
\* When the pool runs the caller goes on holding tp.mu into workerWG.Wait().
StopEnter(th) ==
    /\ tpMu = Free
    /\ IF ~tpRunning
       THEN UNCHANGED <<queueClosed, tpMu, panicked>>
       ELSE IF queueClosed
       THEN /\ panicked' = "close of closed channel"
            /\ UNCHANGED <<queueClosed, tpMu>>
       ELSE /\ queueClosed' = TRUE
            /\ tpMu' = th
            /\ UNCHANGED panicked

\* Stop, lines 142-149: workerWG.Wait() returns once every worker has run
\* its deferred Done(); running = false; the deferred Unlock.
AllWorkersExited == \A w \in Workers : wpc[w] \in {"none", "exited"}

StopWaitDone ==
    /\ AllWorkersExited
    /\ tpRunning' = FALSE
    /\ tpMu' = Free

\* ---------------------------------------------------------------- BaseExecutor
\* Start: under e.mu; "service already running" if the pool runs; if
\* NewThreadPool refuses the configured maxWorkers, the error is returned
\* before e.pool or Status is written; else the new pool is started and
\* Status becomes "running".
ExecutorStart ==
    /\ Alive
    /\ eMu = Free
    /\ ePool => IsRunningReady
    /\ IF ePool /\ IsRunning
       THEN /\ startErr' = "service already running"
            /\ UNCHANGED <<poolVars, ePool, eStatus, eMu>>
       ELSE IF NewThreadPool(cfgMaxWorkers).err # "nil"
       THEN /\ startErr' = "create pool failed"
            /\ UNCHANGED <<poolVars, ePool, eStatus, eMu>>
       ELSE /\ NewStartedPool
            /\ ePool' = TRUE
            /\ eStatus' = "running"
            /\ startErr' = "nil"
            /\ UNCHANGED eMu
    /\ UNCHANGED callVars
    /\ UNCHANGED tmVars
    /\ UNCHANGED lifeVars

\* SubmitTask lines 130-135: e.mu.Lock(); reject when there is no running pool.
ExecutorSubmitCheck(t) ==
    /\ Alive
    /\ NextTask(t)
    /\ subPc = "idle"
    /\ eMu = Free
    /\ ePool => IsRunningReady
    /\ IF ~ePool \/ ~IsRunning
       THEN /\ fate' = [fate EXCEPT ![t] = "rejected"]
            /\ UNCHANGED <<eMu, subPc, subTask>>
       ELSE /\ eMu' = Submitter
            /\ subPc' = "send"
            /\ subTask' = t
            /\ UNCHANGED fate
    /\ UNCHANGED <<poolVars, ePool, eStatus, startErr, stopPc, accepted>>
    /\ UNCHANGED tmVars
    /\ UNCHANGED lifeVars

\* SubmitTask lines 137-139: e.pool.Submit(task); return nil.
ExecutorSubmitSend ==
    /\ Alive
    /\ subPc = "send"
    /\ Submit(subTask)
    /\ accepted' = accepted \cup {subTask}
    /\ subPc' = "idle"
    /\ subTask' = NoTask
    /\ eMu' = Free
    /\ UNCHANGED <<tpRunning, queueClosed, tpMu, werr, activeWorkers,
                   totalTasks, failedTasks, completedTasks>>
    /\ UNCHANGED <<ePool, eStatus, startErr, stopPc>>
    /\ UNCHANGED tmVars
    /\ UNCHANGED lifeVars

\* ThreadPool.Submit called on the pool object itself (the callers that keep
\* the *ThreadPool: taskManager.SubmitTask, GetPool() users).
PoolSubmit(t) ==
    /\ Alive
    /\ NextTask(t)
    /\ ePool
    /\ Submit(t)
    /\ UNCHANGED <<tpRunning, queueClosed, tpMu, werr, activeWorkers,
                   totalTasks, failedTasks, completedTasks>>
    /\ UNCHANGED <<execVars, stopPc, subPc, subTask, accepted>>
    /\ UNCHANGED tmVars
    /\ UNCHANGED lifeVars

\* Stop lines 96-101: e.mu.Lock(); "服务未运行" when there is no running pool.
ExecutorStopCheck ==
    /\ Alive
    /\ stopPc = "idle"
    /\ eMu = Free
    /\ ePool => IsRunningReady
    /\ IF ~ePool \/ ~IsRunning
       THEN UNCHANGED <<eMu, stopPc>>
       ELSE eMu' = Stopper /\ stopPc' = "e_stop"
    /\ UNCHANGED <<poolVars, ePool, eStatus, startErr, subPc, subTask, fate, accepted>>
    /\ UNCHANGED tmVars
    /\ UNCHANGED lifeVars

\* Stop line 103: e.pool.Stop() is entered.
ExecutorStopPool ==
    /\ Alive
    /\ stopPc = "e_stop"
    /\ StopEnter(Stopper)
    /\ stopPc' = IF tpRunning THEN "e_wait" ELSE "e_after"
    /\ UNCHANGED <<tpRunning, wpc, wtask, werr, activeWorkers, totalTasks,
                   failedTasks, completedTasks>>
    /\ UNCHANGED <<execVars, subPc, subTask, fate, accepted>>
    /\ UNCHANGED tmVars
    /\ UNCHANGED lifeVars

ExecutorStopPoolDone ==
    /\ Alive
    /\ stopPc = "e_wait"
    /\ StopWaitDone
    /\ stopPc' = "e_after"
    /\ UNCHANGED <<queueClosed, wpc, wtask, werr, activeWorkers, totalTasks,
                   failedTasks, completedTasks, panicked>>
    /\ UNCHANGED <<execVars, subPc, subTask, fate, accepted>>
    /\ UNCHANGED tmVars
    /\ UNCHANGED lifeVars

\* Stop lines 104-112: e.pool = nil; Status = "stopped"; deferred Unlock.
ExecutorStopFinish ==
    /\ Alive
    /\ stopPc = "e_after"
    /\ ePool' = FALSE
    /\ eStatus' = "stopped"
    /\ eMu' = Free
    /\ UNCHANGED startErr
    /\ stopPc' = "idle"
    /\ UNCHANGED <<poolVars, subPc, subTask, fate, accepted>>
    /\ UNCHANGED tmVars
    /\ UNCHANGED lifeVars

\* ThreadPool.Start called on the pool object itself (part_007:62-79), under
\* tp.mu: a no-op on a running pool; else running = true and maxWorkers new
\* worker goroutines are started.  They range over the taskQueue the pool
\* was constructed with: Start makes no new channel.
PoolStart ==
    /\ Alive
    /\ ePool
    /\ tpMu = Free
    /\ IF tpRunning
       THEN UNCHANGED <<tpRunning, wpc, wtask, werr>>
       ELSE /\ tpRunning' = TRUE
            /\ wpc' = [w \in Workers |-> IF w <= cfgMaxWorkers THEN "recv" ELSE "none"]
            /\ wtask' = [w \in Workers |-> NoTask]
            /\ werr' = [w \in Workers |-> FALSE]
    /\ UNCHANGED <<queueClosed, tpMu, activeWorkers, totalTasks, failedTasks,
                   completedTasks, panicked>>
    /\ UNCHANGED <<execVars, callVars>>
    /\ UNCHANGED tmVars
    /\ UNCHANGED lifeVars

\* ThreadPool.Stop called on the pool object itself (GetPool().Stop()).
PoolStop ==
    /\ Alive
    /\ stopPc = "idle"
    /\ ePool
    /\ StopEnter(Stopper)
    /\ stopPc' = IF tpRunning THEN "p_wait" ELSE "idle"
    /\ UNCHANGED <<tpRunning, wpc, wtask, werr, activeWorkers, totalTasks,
                   failedTasks, completedTasks>>
    /\ UNCHANGED <<execVars, subPc, subTask, fate, accepted>>
    /\ UNCHANGED tmVars
    /\ UNCHANGED lifeVars

PoolStopDone ==
    /\ Alive
    /\ stopPc = "p_wait"
    /\ StopWaitDone
    /\ stopPc' = "idle"
    /\ UNCHANGED <<queueClosed, wpc, wtask, werr, activeWorkers, totalTasks,
                   failedTasks, completedTasks, panicked>>
    /\ UNCHANGED <<execVars, subPc, subTask, fate, accepted>>
    /\ UNCHANGED tmVars
    /\ UNCHANGED lifeVars

\* ---------------------------------------------------------------- taskManager
Statuses == {"pending", "running", "completed", "failed", "cancelled"}
Terminal == {"completed", "failed", "cancelled"}

\* A task record: TaskInfo / interfaces.TaskInterface, without its ID, which
\* recID holds.  completedAt and duration are 0 (zero value) or 1 (set from
\* the clock); createdAt is 1 for a submitted task; error and result are ""
\* when empty.
NewTask ==
    [status |-> "pending", name |-> "task", progress |-> 0, createdAt |-> 1,
     completedAt |-> 0, duration |-> 0, error |-> "", result |-> ""]

\* Service.UpdateTask builds the record from the request: its name and status,
\* Progress 0, CreatedAt time.Now(), everything else the zero value.
ServiceUpdateRecs ==
    {[status |-> s, name |-> "req", progress |-> 0, createdAt |-> 2,
      completedAt |-> 0, duration |-> 0, error |-> "", result |-> ""] : s \in Statuses}

\* Records of a finished run, as a caller of TaskManager.UpdateTask reports
\* them: a failure with its error, a success with its result.
FinishedRecs ==
    {[NewTask EXCEPT !.status = "failed", !.progress = 50, !.completedAt = 1,
                     !.duration = 1, !.error = "err"],
     [NewTask EXCEPT !.status = "completed", !.progress = 100, !.completedAt = 1,
                     !.duration = 1, !.result = "out"]}

\* The records a caller passes to UpdateTask.
UpdateRecs == ServiceUpdateRecs \cup FinishedRecs

Put(f, k, v) == [x \in DOMAIN f \cup {k} |-> IF x = k THEN v ELSE f[x]]
Remove(f, k) == [x \in DOMAIN f \ {k} |-> f[x]]

\* A setter called on the task object the registry entry points to.
SetFields(t, status, completedAt, duration) ==
    IF t \in DOMAIN tasks
    THEN [tasks EXCEPT ![t] = [@ EXCEPT !.status = status,
                                        !.completedAt = completedAt,
                                        !.duration = duration]]
    ELSE tasks

\* SubmitTask without the `if _, exists := tm.tasks[id]; exists` check of
\* lines 321-323.
SubmitTask_NoDuplicateCheck(t) ==
    /\ Alive
    /\ tmMu = Free
    /\ ePool
    /\ tmErr' = "nil"
    /\ tmTotalTasks < MaxRegistered
    /\ tmTotalTasks' = tmTotalTasks + 1
    /\ tasks' = Put(tasks, t, NewTask)
    /\ recID' = Put(recID, t, t)
    /\ activeTaskCount' = activeTaskCount + 1
    /\ Submit(t)
    /\ UNCHANGED <<tpRunning, queueClosed, tpMu, werr, activeWorkers,
                   totalTasks, failedTasks, completedTasks>>
    /\ UNCHANGED <<execVars, stopPc, subPc, subTask, accepted, tmMu>>
    /\ UNCHANGED <<orchVars, coreSvcVars, sm2Vars, mgrVars, lockVars>>

\* SubmitTask (part_007:317-345), under tm.mu: a known id is a no-op; a new
\* one is counted, registered and its closure handed to the pool's Submit.
SubmitTask(t) ==
    /\ Alive
    /\ tmMu = Free
    /\ ePool
    /\ tmErr' = "nil"
    /\ t \notin DOMAIN tasks => tmTotalTasks < MaxRegistered
    /\ IF t \in DOMAIN tasks
       THEN UNCHANGED <<tasks, recID, tmTotalTasks, activeTaskCount, wpc, wtask, fate,
                        panicked>>
       ELSE /\ tmTotalTasks' = tmTotalTasks + 1
            /\ tasks' = Put(tasks, t, NewTask)
            /\ recID' = Put(recID, t, t)
            /\ activeTaskCount' = activeTaskCount + 1
            /\ Submit(t)
    /\ UNCHANGED <<tpRunning, queueClosed, tpMu, werr, activeWorkers,
                   totalTasks, failedTasks, completedTasks>>
    /\ UNCHANGED <<execVars, stopPc, subPc, subTask, accepted, tmMu>>
    /\ UNCHANGED <<orchVars, coreSvcVars, sm2Vars, mgrVars, lockVars>>

\* The closure of SubmitTask, run by a worker outside tm.mu.
\* lines 332-334: task.SetStatus("running"); task.SetStartTime(now)
ClosureStart(w) ==
    /\ Alive
    /\ wpc[w] = "exec"
    /\ tasks' = SetFields(wtask[w], "running",
                          IF wtask[w] \in DOMAIN tasks THEN tasks[wtask[w]].completedAt ELSE 0,
                          IF wtask[w] \in DOMAIN tasks THEN tasks[wtask[w]].duration ELSE 0)
    /\ wpc' = [wpc EXCEPT ![w] = "c_run"]
    /\ UNCHANGED <<tpRunning, queueClosed, tpMu, wtask, werr, activeWorkers,
                   totalTasks, failedTasks, completedTasks, panicked>>
    /\ UNCHANGED <<execVars, callVars, tmMu, tmTotalTasks, activeTaskCount, tmErr>>
    /\ UNCHANGED lifeVars

\* lines 335-340: task.Execute() returns, with an error or without (werr
\* holds it while the closure runs: the closure itself never reads it);
\* SetStatus("completed"); SetDuration; SetFinishedAt
ClosureFinish(w) ==
    /\ Alive
    /\ wpc[w] = "c_run"
    /\ \E err \in BOOLEAN : werr' = [werr EXCEPT ![w] = err]
    /\ tasks' = SetFields(wtask[w], "completed", 1, 1)
    /\ wpc' = [wpc EXCEPT ![w] = "c_count"]
    /\ fate' = [fate EXCEPT ![wtask[w]] = "executed"]
    /\ UNCHANGED <<tpRunning, queueClosed, tpMu, wtask, activeWorkers,
                   totalTasks, failedTasks, completedTasks, panicked>>
    /\ UNCHANGED <<execVars, stopPc, subPc, subTask, accepted>>
    /\ UNCHANGED <<tmMu, tmTotalTasks, activeTaskCount, tmErr>>
    /\ UNCHANGED lifeVars

\* line 341: tm.activeTaskCount--; the closure returns to the worker.
ClosureCount(w) ==
    /\ Alive
    /\ wpc[w] = "c_count"
    /\ activeTaskCount' = activeTaskCount - 1
    /\ wpc' = [wpc EXCEPT ![w] = "returned"]
    /\ werr' = [werr EXCEPT ![w] = FALSE]
    /\ UNCHANGED <<tpRunning, queueClosed, tpMu, wtask, activeWorkers,
                   totalTasks, failedTasks, completedTasks, panicked>>
    /\ UNCHANGED <<execVars, callVars, tasks, tmMu, tmTotalTasks, tmErr>>
    /\ UNCHANGED lifeVars

\* CancelTask (task_manager.go:248-272), under tm.mu.  ThreadPool.CancelTask
\* only takes and releases tp.mu.
CancelTask(t) ==
    /\ Alive
    /\ tmMu = Free
    /\ IF t \notin DOMAIN tasks
       THEN tmErr' = "not found" /\ UNCHANGED tasks
       ELSE /\ tpMu = Free
            /\ tasks' = SetFields(t, "cancelled", 1, 1)
            /\ tmErr' = "nil"
    /\ UNCHANGED <<poolVars, execVars, callVars, tmMu, tmTotalTasks, activeTaskCount>>
    /\ UNCHANGED lifeVars

\* RetryTask with line 291 (task.Result = "") left out.
RetryTask_KeepsResult(t) ==
    /\ Alive
    /\ tmMu = Free
    /\ IF t \notin DOMAIN tasks
       THEN tmErr' = "not found" /\ UNCHANGED tasks
       ELSE /\ tasks' = [tasks EXCEPT ![t] = [@ EXCEPT !.status = "pending",
                                                       !.progress = 0,
                                                       !.error = "",
                                                       !.completedAt = 0,
                                                       !.duration = 0]]
            /\ tmErr' = "nil"
    /\ UNCHANGED <<poolVars, execVars, callVars, tmMu, tmTotalTasks, activeTaskCount>>
    /\ UNCHANGED lifeVars

\* RetryTask (task_manager.go:278-297), under tm.mu: the fields of the run
\* are reset on the registered record; nothing is handed to the pool.
RetryTask(t) ==
    /\ Alive
    /\ tmMu = Free
    /\ IF t \notin DOMAIN tasks
       THEN tmErr' = "not found" /\ UNCHANGED tasks
       ELSE /\ tasks' = [tasks EXCEPT ![t] = [@ EXCEPT !.status = "pending",
                                                       !.progress = 0,
                                                       !.error = "",
                                                       !.result = "",
                                                       !.completedAt = 0,
                                                       !.duration = 0]]
            /\ tmErr' = "nil"
    /\ UNCHANGED <<poolVars, execVars, callVars, tmMu, tmTotalTasks, activeTaskCount>>
    /\ UNCHANGED lifeVars

\* UpdateTask (task_manager.go:418-431): the entry is replaced by the record.
\* The caller that builds rec (interfaces/service.go:325) sets its ID to taskID.
UpdateTask(t, rec) ==
    /\ Alive
    /\ tmMu = Free
    /\ IF t \notin DOMAIN tasks
       THEN tmErr' = "not found" /\ UNCHANGED <<tasks, recID>>
       ELSE /\ tasks' = [tasks EXCEPT ![t] = rec]
            /\ recID' = [recID EXCEPT ![t] = t]
            /\ tmErr' = "nil"
    /\ UNCHANGED <<poolVars, execVars, callVars, tmMu, tmTotalTasks, activeTaskCount>>
    /\ UNCHANGED <<orchVars, coreSvcVars, sm2Vars, mgrVars, lockVars>>

\* DeleteTask (task_manager.go:437-450).
DeleteTask(t) ==
    /\ Alive
    /\ tmMu = Free
    /\ IF t \notin DOMAIN tasks
       THEN tmErr' = "not found" /\ UNCHANGED <<tasks, recID>>
       ELSE /\ tasks' = Remove(tasks, t)
            /\ recID' = Remove(recID, t)
            /\ tmErr' = "nil"
    /\ UNCHANGED <<poolVars, execVars, callVars, tmMu, tmTotalTasks, activeTaskCount>>
    /\ UNCHANGED <<orchVars, coreSvcVars, sm2Vars, mgrVars, lockVars>>

\* UpdateTask(taskID, status) of part_007:294-304: an unknown id returns nil.
UpdateTaskV2(t, status) ==
    /\ Alive
    /\ tmMu = Free
    /\ tmErr' = "nil"
    /\ IF t \notin DOMAIN tasks
       THEN UNCHANGED tasks
       ELSE tasks' = [tasks EXCEPT ![t].status = status]
    /\ UNCHANGED <<poolVars, execVars, callVars, tmMu, tmTotalTasks, activeTaskCount>>
    /\ UNCHANGED lifeVars

\* CancelTask of part_007:347-360: an unknown id returns nil.  For a known id
\* it sets the status and then calls tm.UpdateTask while still holding tm.mu:
\* UpdateTask's tm.mu.Lock() never succeeds (sync.RWMutex is not reentrant),
\* so the call never returns and tm.mu stays locked.
Canceller == <<"canceller", 0>>

CancelTaskV2(t) ==
    /\ Alive
    /\ tmMu = Free
    /\ IF t \notin DOMAIN tasks
       THEN tmErr' = "nil" /\ UNCHANGED <<tasks, tmMu>>
       ELSE /\ tasks' = [tasks EXCEPT ![t].status = "cancelled"]
            /\ tmMu' = Canceller
            /\ UNCHANGED tmErr
    /\ UNCHANGED <<poolVars, execVars, callVars, tmTotalTasks, activeTaskCount>>
    /\ UNCHANGED lifeVars

\* GetTaskStats (task_manager.go:303-338).  len() of the unbuffered queue is 0.
CountStatus(s) == Cardinality({t \in DOMAIN tasks : tasks[t].status = s})

\* Faulty variant of GetTaskStats: TotalTasks read from the submit counter.
GetTaskStats_StaleCounter ==
    [TotalTasks |-> tmTotalTasks,
     ActiveTasks |-> CountStatus("running"),
     CompletedTasks |-> CountStatus("completed"),
     FailedTasks |-> CountStatus("failed"),
     QueueLength |-> 0,
     ActiveWorkers |-> activeWorkers]

GetTaskStats ==
    [TotalTasks |-> Cardinality(DOMAIN tasks),
     ActiveTasks |-> CountStatus("running"),
     CompletedTasks |-> CountStatus("completed"),
     FailedTasks |-> CountStatus("failed"),
     QueueLength |-> 0,
     ActiveWorkers |-> activeWorkers]

\* GetAllTasks (task_manager.go:214-225): one slice element per map entry
\* (the map's iteration order is unspecified; ascending ids here).
RECURSIVE SliceOf(_)
SliceOf(ids) ==
    IF ids = {} THEN << >>
    ELSE LET k == CHOOSE x \in ids : \A y \in ids : x <= y
         IN <<[id |-> k, task |-> tasks[k]]>> \o SliceOf(ids \ {k})

GetAllTasks == SliceOf(DOMAIN tasks)

\* ---------------------------------------------------------------- RestartManager
\* A caller is inside a sequence from the moment its guard let it in until
\* the call returns.
Returned == {"idle", "rejected", "done"}
InSequence(c) == lpc[c] \notin Returned
Calls(c, op, pc) ==
    /\ lop' = [lop EXCEPT ![c] = op]
    /\ lpc' = [lpc EXCEPT ![c] = pc]
    /\ ldone' = [ldone EXCEPT ![c] = << >>]
    /\ lerrs' = [lerrs EXCEPT ![c] = {}]

\* A step, or a module stop, of caller c has finished; it reported an error.
Logs(c, step) == ldone' = [ldone EXCEPT ![c] = Append(@, step)]
Fails(c, step) == lerrs' = [lerrs EXCEPT ![c] = @ \cup {step}]

\* Faulty variant of RestartBegin: the check of isRestarting is left out.
RestartBegin_NoGuard(c) ==
    /\ lpc[c] \in Returned
    /\ isRestarting' = TRUE
    /\ Calls(c, "Restart", "saveCurrentState")
    /\ UNCHANGED <<isShuttingDown, smCtxDone, lidx, timedOut, todo>>
    /\ UNCHANGED <<poolVars, execVars, callVars, tmVars>>
    /\ UNCHANGED <<cfgVars, svcVars>>

\* Restart, part_004:169-176: under rm.mu, "服务正在重启中" when isRestarting,
\* otherwise isRestarting = true.
RestartBegin(c) ==
    /\ lpc[c] \in Returned
    /\ IF isRestarting
       THEN /\ Calls(c, "Restart", "rejected")
            /\ UNCHANGED isRestarting
       ELSE /\ isRestarting' = TRUE
            /\ Calls(c, "Restart", "saveCurrentState")
    /\ UNCHANGED <<isShuttingDown, smCtxDone, lidx, timedOut, todo>>
    /\ UNCHANGED <<poolVars, execVars, callVars, tmVars>>
    /\ UNCHANGED <<cfgVars, svcVars>>

\* config.InitConfig (config.go:431-444): the file is loaded, then refused
\* when a global configuration exists already.
NoConfig == 0
InitConfig(global, file) ==
    IF global # NoConfig
    THEN [err |-> "global config already initialized", config |-> global]
    ELSE [err |-> "nil", config |-> file]

\* config.GetConfig (config.go:451-453).
GetConfig == globalConfig

\* Service.GetExecutorStatus (service.go:394-402): the executor's Status.
GetExecutorStatus == eStatus

\* The operator edits config/config.yaml on disk.
WriteConfigFile(v) ==
    /\ v # cfgFile
    /\ cfgFile' = v
    /\ UNCHANGED svcVars
    /\ UNCHANGED <<globalConfig, cfgMaxWorkers, isRestarting, isShuttingDown,
                   smCtxDone, lop, lpc, lidx, timedOut, todo, logVars>>
    /\ UNCHANGED <<poolVars, execVars, callVars, tmVars>>

\* Restart, part_004:178-198: saveCurrentState, gracefulShutdown (every stop*
\* helper is a stub returning nil), reloadConfiguration, reinitializeModules;
\* an error of a step is logged and the sequence goes on.
RestartSteps ==
    <<"saveCurrentState", "gracefulShutdown", "reloadConfiguration",
      "reinitializeModules", "finish">>

\* Faulty variant of RestartStep: gracefulShutdown stops the executor and
\* nothing starts it again.
RestartStep_StopsExecutor(c) ==
    /\ \E i \in 1..(Len(RestartSteps) - 1) :
         /\ lpc[c] = RestartSteps[i]
         /\ lpc' = [lpc EXCEPT ![c] = RestartSteps[i + 1]]
         /\ Logs(c, RestartSteps[i])
         /\ IF RestartSteps[i] = "reloadConfiguration"
            THEN /\ globalConfig' = InitConfig(globalConfig, cfgFile).config
                 /\ IF InitConfig(globalConfig, cfgFile).err # "nil"
                    THEN Fails(c, "reloadConfiguration")
                    ELSE UNCHANGED lerrs
            ELSE /\ UNCHANGED globalConfig
                 /\ IF RestartSteps[i] = "reinitializeModules" /\ GetExecutorStatus # ""
                    THEN Fails(c, "reinitializeModules")
                    ELSE UNCHANGED lerrs
    /\ UNCHANGED <<cfgFile, cfgMaxWorkers, svcVars>>
    /\ UNCHANGED <<lop, isRestarting, isShuttingDown, smCtxDone, lidx, timedOut, todo>>
    /\ IF lpc[c] = "gracefulShutdown"
       THEN ePool' = FALSE /\ eStatus' = "stopped" /\ UNCHANGED <<eMu, startErr>>
       ELSE UNCHANGED execVars
    /\ UNCHANGED <<poolVars, callVars, tmVars>>

RestartStep(c) ==
    /\ \E i \in 1..(Len(RestartSteps) - 1) :
         /\ lpc[c] = RestartSteps[i]
         /\ lpc' = [lpc EXCEPT ![c] = RestartSteps[i + 1]]
         /\ Logs(c, RestartSteps[i])
         /\ IF RestartSteps[i] = "reloadConfiguration"
            THEN /\ globalConfig' = InitConfig(globalConfig, cfgFile).config
                 /\ IF InitConfig(globalConfig, cfgFile).err # "nil"
                    THEN Fails(c, "reloadConfiguration")
                    ELSE UNCHANGED lerrs
            ELSE /\ UNCHANGED globalConfig
                 /\ IF RestartSteps[i] = "reinitializeModules" /\ GetExecutorStatus # ""
                    THEN Fails(c, "reinitializeModules")
                    ELSE UNCHANGED lerrs
    /\ UNCHANGED <<cfgFile, cfgMaxWorkers, svcVars>>
    /\ UNCHANGED <<lop, isRestarting, isShuttingDown, smCtxDone, lidx, timedOut, todo>>
    /\ UNCHANGED <<poolVars, execVars, callVars, tmVars>>

\* Restart, part_004:200-206: under rm.mu isRestarting = false; return nil.
RestartFinish(c) ==
    /\ lpc[c] = "finish"
    /\ isRestarting' = FALSE
    /\ lpc' = [lpc EXCEPT ![c] = "done"]
    /\ UNCHANGED <<lop, isShuttingDown, smCtxDone, lidx, timedOut, todo>>
    /\ UNCHANGED <<poolVars, execVars, callVars, tmVars>>
    /\ UNCHANGED logVars
    /\ UNCHANGED <<cfgVars, svcVars>>

\* ---------------------------------------------------------------- ShutdownManager
\* Stop (shutdown_manager.go:49-59): cancels sm.ctx.
ShutdownManagerStop ==
    /\ ~smCtxDone
    /\ smCtxDone' = TRUE
    /\ UNCHANGED <<lop, isRestarting, isShuttingDown, lpc, lidx, timedOut, todo>>
    /\ UNCHANGED <<poolVars, execVars, callVars, tmVars>>
    /\ UNCHANGED logVars
    /\ UNCHANGED <<cfgVars, svcVars>>

\* Shutdown, lines 62-69: under sm.mu, "服务正在关闭中" when isShuttingDown,
\* otherwise isShuttingDown = true.
ShutdownBegin(c) ==
    /\ lpc[c] \in Returned
    /\ IF isShuttingDown
       THEN /\ Calls(c, "Shutdown", "rejected")
            /\ UNCHANGED isShuttingDown
       ELSE /\ isShuttingDown' = TRUE
            /\ Calls(c, "Shutdown", "stopNewRequests")
    /\ timedOut' = [timedOut EXCEPT ![c] = FALSE]
    /\ UNCHANGED <<isRestarting, smCtxDone, lidx, todo>>
    /\ UNCHANGED <<poolVars, execVars, callVars, tmVars>>
    /\ UNCHANGED <<cfgVars, svcVars>>

\* stopNewRequests (lines 139-146): logs only.
StopNewRequests(c) ==
    /\ lpc[c] = "stopNewRequests"
    /\ lpc' = [lpc EXCEPT ![c] = "waitForActiveTasks"]
    /\ UNCHANGED <<lop, isRestarting, isShuttingDown, smCtxDone, lidx, timedOut, todo>>
    /\ UNCHANGED <<poolVars, execVars, callVars, tmVars>>
    /\ Logs(c, "stopNewRequests")
    /\ UNCHANGED lerrs
    /\ UNCHANGED <<cfgVars, svcVars>>

ActiveTasks == {t \in DOMAIN tasks : tasks[t].status \in {"running", "pending"}}

\* waitForActiveTasks, lines 153-180: GetAllTasks (read lock of the task
\* manager), count the running and pending tasks once; with none the step
\* returns, otherwise the caller blocks on <-ctx.Done().
WaitForActiveTasks(c) ==
    /\ lpc[c] = "waitForActiveTasks"
    /\ tmMu = Free
    /\ IF ActiveTasks = {}
       THEN /\ lpc' = [lpc EXCEPT ![c] = "modules"]
            /\ lidx' = [lidx EXCEPT ![c] = 1]
            /\ Logs(c, "waitForActiveTasks")
       ELSE /\ lpc' = [lpc EXCEPT ![c] = "waiting"]
            /\ UNCHANGED <<lidx, ldone>>
    /\ UNCHANGED <<lop, isRestarting, isShuttingDown, smCtxDone, timedOut, todo>>
    /\ UNCHANGED <<poolVars, execVars, callVars, tmVars>>
    /\ UNCHANGED lerrs
    /\ UNCHANGED <<cfgVars, svcVars>>

\* The 30 s deadline of context.WithTimeout(sm.ctx, 30*time.Second) passes.
TimerFires(c) ==
    /\ lpc[c] = "waiting"
    /\ ~timedOut[c]
    /\ timedOut' = [timedOut EXCEPT ![c] = TRUE]
    /\ UNCHANGED <<lop, isRestarting, isShuttingDown, smCtxDone, lpc, lidx, todo>>
    /\ UNCHANGED <<poolVars, execVars, callVars, tmVars>>
    /\ UNCHANGED logVars
    /\ UNCHANGED <<cfgVars, svcVars>>

\* waitForActiveTasks, line 180: <-ctx.Done() returns when the deadline has
\* passed or sm.ctx was cancelled; the tasks are not looked at again.
ShutdownWaitDone(c) ==
    /\ lpc[c] = "waiting"
    /\ timedOut[c] \/ smCtxDone
    /\ lpc' = [lpc EXCEPT ![c] = "modules"]
    /\ lidx' = [lidx EXCEPT ![c] = 1]
    /\ UNCHANGED <<lop, isRestarting, isShuttingDown, smCtxDone, timedOut, todo>>
    /\ UNCHANGED <<poolVars, execVars, callVars, tmVars>>
    /\ Logs(c, "waitForActiveTasks")
    /\ UNCHANGED lerrs
    /\ UNCHANGED <<cfgVars, svcVars>>

\* gracefulShutdownModules (lines 188-258) and forceShutdownModules (lines
\* 261-325) walk the same list with the same calls.
Modules == <<"config", "logger", "monitor", "threadpool", "executor", "sandbox", "web">>

\* After the last module the step returns and cleanupResources is next.
NextModule(c) ==
    /\ Logs(c, Modules[lidx[c]])
    /\ IF lidx[c] = Len(Modules)
       THEN /\ lpc' = [lpc EXCEPT ![c] = "cleanupResources"]
            /\ lidx' = [lidx EXCEPT ![c] = 0]
       ELSE /\ lpc' = [lpc EXCEPT ![c] = "modules"]
            /\ lidx' = [lidx EXCEPT ![c] = lidx[c] + 1]

\* case "config", "logger", "monitor", "sandbox", "web": logging only.
ModuleLogOnly(c) ==
    /\ lpc[c] = "modules"
    /\ Modules[lidx[c]] \notin {"threadpool", "executor"}
    /\ NextModule(c)
    /\ UNCHANGED <<lop, isRestarting, isShuttingDown, smCtxDone, timedOut, todo>>
    /\ UNCHANGED <<poolVars, execVars, callVars, tmVars>>
    /\ UNCHANGED lerrs
    /\ UNCHANGED <<cfgVars, svcVars>>

\* case "threadpool" (lines 226-233): pool := Executor.GetPool() under the
\* read lock of e.mu; if pool != nil, pool.Stop() is entered.
ModuleThreadPool(c) ==
    /\ Alive
    /\ lpc[c] = "modules"
    /\ Modules[lidx[c]] = "threadpool"
    /\ eMu = Free
    /\ IF ePool
       THEN /\ StopEnter(T(c))
            /\ IF tpRunning
               THEN lpc' = [lpc EXCEPT ![c] = "p_wait"] /\ UNCHANGED <<lidx, ldone>>
               ELSE NextModule(c)
       ELSE /\ NextModule(c)
            /\ UNCHANGED <<queueClosed, tpMu, panicked>>
    /\ UNCHANGED <<tpRunning, wpc, wtask, werr, activeWorkers, totalTasks,
                   failedTasks, completedTasks>>
    /\ UNCHANGED <<lop, isRestarting, isShuttingDown, smCtxDone, timedOut, todo>>
    /\ UNCHANGED <<execVars, callVars, tmVars>>
    /\ UNCHANGED lerrs
    /\ UNCHANGED <<cfgVars, svcVars>>

\* pool.Stop() returns to the module loop.
ModuleThreadPoolDone(c) ==
    /\ Alive
    /\ lpc[c] = "p_wait"
    /\ StopWaitDone
    /\ NextModule(c)
    /\ UNCHANGED <<queueClosed, wpc, wtask, werr, activeWorkers, totalTasks,
                   failedTasks, completedTasks, panicked>>
    /\ UNCHANGED <<lop, isRestarting, isShuttingDown, smCtxDone, timedOut, todo>>
    /\ UNCHANGED <<execVars, callVars, tmVars>>
    /\ UNCHANGED lerrs
    /\ UNCHANGED <<cfgVars, svcVars>>

\* Faulty variant of ModuleExecutor: the error of Executor.Stop() ends the
\* module loop.
ModuleExecutor_AbortOnError(c) ==
    /\ Alive
    /\ lpc[c] = "modules"
    /\ Modules[lidx[c]] = "executor"
    /\ eMu = Free
    /\ ePool => IsRunningReady
    /\ IF ~ePool \/ ~IsRunning
       THEN /\ lpc' = [lpc EXCEPT ![c] = "cleanupResources"]
            /\ lidx' = [lidx EXCEPT ![c] = 0]
            /\ Logs(c, "executor")
            /\ Fails(c, "executor")
            /\ UNCHANGED eMu
       ELSE /\ eMu' = T(c)
            /\ lpc' = [lpc EXCEPT ![c] = "e_stop"]
            /\ UNCHANGED <<lidx, logVars>>
    /\ UNCHANGED <<lop, isRestarting, isShuttingDown, smCtxDone, timedOut, todo>>
    /\ UNCHANGED <<poolVars, ePool, eStatus, startErr, callVars, tmVars>>
    /\ UNCHANGED <<cfgVars, svcVars>>

\* case "executor" (lines 215-223): Executor.Stop(); its "服务未运行" error is
\* logged and the loop goes on.
ModuleExecutor(c) ==
    /\ Alive
    /\ lpc[c] = "modules"
    /\ Modules[lidx[c]] = "executor"
    /\ eMu = Free
    /\ ePool => IsRunningReady
    /\ IF ~ePool \/ ~IsRunning
       THEN NextModule(c) /\ Fails(c, "executor") /\ UNCHANGED eMu
       ELSE /\ eMu' = T(c)
            /\ lpc' = [lpc EXCEPT ![c] = "e_stop"]
            /\ UNCHANGED <<lidx, logVars>>
    /\ UNCHANGED <<lop, isRestarting, isShuttingDown, smCtxDone, timedOut, todo>>
    /\ UNCHANGED <<poolVars, ePool, eStatus, startErr, callVars, tmVars>>
    /\ UNCHANGED <<cfgVars, svcVars>>

\* Executor.Stop line 103 called by the module loop: e.pool.Stop() is entered.
ModuleExecutorStopPool(c) ==
    /\ Alive
    /\ lpc[c] = "e_stop"
    /\ StopEnter(T(c))
    /\ lpc' = [lpc EXCEPT ![c] = IF tpRunning THEN "e_wait" ELSE "e_after"]
    /\ UNCHANGED <<tpRunning, wpc, wtask, werr, activeWorkers, totalTasks,
                   failedTasks, completedTasks>>
    /\ UNCHANGED <<lop, isRestarting, isShuttingDown, smCtxDone, lidx, timedOut, todo>>
    /\ UNCHANGED <<execVars, callVars, tmVars>>
    /\ UNCHANGED logVars
    /\ UNCHANGED <<cfgVars, svcVars>>

ModuleExecutorStopPoolDone(c) ==
    /\ Alive
    /\ lpc[c] = "e_wait"
    /\ StopWaitDone
    /\ lpc' = [lpc EXCEPT ![c] = "e_after"]
    /\ UNCHANGED <<queueClosed, wpc, wtask, werr, activeWorkers, totalTasks,
                   failedTasks, completedTasks, panicked>>
    /\ UNCHANGED <<lop, isRestarting, isShuttingDown, smCtxDone, lidx, timedOut, todo>>
    /\ UNCHANGED <<execVars, callVars, tmVars>>
    /\ UNCHANGED logVars
    /\ UNCHANGED <<cfgVars, svcVars>>

\* Executor.Stop lines 104-112 called by the module loop.
ModuleExecutorStopFinish(c) ==
    /\ Alive
    /\ lpc[c] = "e_after"
    /\ ePool' = FALSE
    /\ eStatus' = "stopped"
    /\ eMu' = Free
    /\ UNCHANGED startErr
    /\ NextModule(c)
    /\ UNCHANGED <<lop, isRestarting, isShuttingDown, smCtxDone, timedOut, todo>>
    /\ UNCHANGED <<poolVars, callVars, tmVars>>
    /\ UNCHANGED lerrs
    /\ UNCHANGED <<cfgVars, svcVars>>

\* cleanupResources (lines 362-375) logs; Shutdown then clears its flag under
\* sm.mu (lines 101-105) and returns nil.
ShutdownFinish(c) ==
    /\ lop[c] = "Shutdown"
    /\ lpc[c] = "cleanupResources"
    /\ isShuttingDown' = FALSE
    /\ lpc' = [lpc EXCEPT ![c] = "done"]
    /\ UNCHANGED <<lop, isRestarting, smCtxDone, lidx, timedOut, todo>>
    /\ UNCHANGED <<poolVars, execVars, callVars, tmVars>>
    /\ Logs(c, "cleanupResources")
    /\ UNCHANGED lerrs
    /\ UNCHANGED <<cfgVars, svcVars>>

\* ForceShutdown (lines 109-136) starts its steps whatever the flags say.
ForceShutdownBegin(c) ==
    /\ lpc[c] \in Returned
    /\ Calls(c, "ForceShutdown", "forceTerminateTasks")
    /\ UNCHANGED <<isRestarting, isShuttingDown, smCtxDone, lidx, timedOut, todo>>
    /\ UNCHANGED <<poolVars, execVars, callVars, tmVars>>
    /\ UNCHANGED <<cfgVars, svcVars>>

\* forceTerminateTasks, lines 332-343: GetAllTasks; the loop will visit the
\* tasks that are running or pending in this snapshot.
ForceTerminateSnapshot(c) ==
    /\ lpc[c] = "forceTerminateTasks"
    /\ tmMu = Free
    /\ todo' = [todo EXCEPT ![c] = ActiveTasks]
    /\ lpc' = [lpc EXCEPT ![c] = "cancelling"]
    /\ UNCHANGED <<lop, isRestarting, isShuttingDown, smCtxDone, lidx, timedOut>>
    /\ UNCHANGED <<poolVars, execVars, callVars, tmVars>>
    /\ UNCHANGED logVars
    /\ UNCHANGED <<cfgVars, svcVars>>

\* forceTerminateTasks, lines 344-352: TaskManager.CancelTask(task.ID) for
\* the next task of the snapshot; an error is logged.
ForceTerminateCancel(c) ==
    /\ Alive
    /\ lpc[c] = "cancelling"
    /\ tmMu = Free
    /\ \E t \in todo[c] :
         /\ \A u \in todo[c] : t <= u
         /\ todo' = [todo EXCEPT ![c] = todo[c] \ {t}]
         /\ IF t \notin DOMAIN tasks
            THEN tmErr' = "not found" /\ UNCHANGED tasks
            ELSE /\ tpMu = Free
                 /\ tasks' = SetFields(t, "cancelled", 1, 1)
                 /\ tmErr' = "nil"
    /\ UNCHANGED <<lop, isRestarting, isShuttingDown, smCtxDone, lpc, lidx, timedOut>>
    /\ UNCHANGED <<poolVars, execVars, callVars, tmMu, tmTotalTasks, activeTaskCount>>
    /\ UNCHANGED logVars
    /\ UNCHANGED <<cfgVars, svcVars>>

\* forceTerminateTasks returns; forceShutdownModules is next.
ForceTerminateDone(c) ==
    /\ lpc[c] = "cancelling"
    /\ todo[c] = {}
    /\ lpc' = [lpc EXCEPT ![c] = "modules"]
    /\ lidx' = [lidx EXCEPT ![c] = 1]
    /\ UNCHANGED <<lop, isRestarting, isShuttingDown, smCtxDone, timedOut, todo>>
    /\ UNCHANGED <<poolVars, execVars, callVars, tmVars>>
    /\ Logs(c, "forceTerminateTasks")
    /\ UNCHANGED lerrs
    /\ UNCHANGED <<cfgVars, svcVars>>

\* cleanupResources logs and ForceShutdown returns nil (lines 127-135).
ForceShutdownFinish(c) ==
    /\ lop[c] = "ForceShutdown"
    /\ lpc[c] = "cleanupResources"
    /\ lpc' = [lpc EXCEPT ![c] = "done"]
    /\ UNCHANGED <<lop, isRestarting, isShuttingDown, smCtxDone, lidx, timedOut, todo>>
    /\ UNCHANGED <<poolVars, execVars, callVars, tmVars>>
    /\ Logs(c, "cleanupResources")
    /\ UNCHANGED lerrs
    /\ UNCHANGED <<cfgVars, svcVars>>

\* ---------------------------------------------------------------- Spec
WorkerStep(w) ==
    \/ WorkerExit(w)
    \/ WorkerBeginLock(w)
    \/ WorkerBeginUnlock(w)
    \/ WorkerExecute(w)
    \/ WorkerEndLock(w)
    \/ WorkerEndUnlock(w)

Next ==
    \/ ExecutorStart
    \/ \E t \in TaskIds : ExecutorSubmitCheck(t)
    \/ ExecutorSubmitSend
    \/ \E t \in TaskIds : PoolSubmit(t)
    \/ ExecutorStopCheck
    \/ ExecutorStopPool
    \/ ExecutorStopPoolDone
    \/ ExecutorStopFinish
    \/ PoolStop
    \/ PoolStopDone
    \/ \E w \in Workers : WorkerStep(w)

Spec == Init /\ [][Next]_vars

\* Goroutines are scheduled fairly and every Execute returns: a step of a
\* worker, or of a call that is already in progress, that stays possible is
\* eventually taken.  Nothing obliges a caller to start a new call.
FairSpec ==
    /\ Spec
    /\ \A w \in Workers : WF_vars(WorkerStep(w))
    /\ WF_vars(ExecutorStopPool \/ ExecutorStopPoolDone \/ ExecutorStopFinish \/ PoolStopDone)
    /\ WF_vars(ExecutorSubmitSend)

\* A pool object that its owner starts and stops repeatedly.
NextPoolRestart ==
    \/ ExecutorStart
    \/ \E t \in TaskIds : PoolSubmit(t)
    \/ PoolStart
    \/ PoolStop
    \/ PoolStopDone
    \/ \E w \in Workers : WorkerStep(w)

SpecPoolRestart == Init /\ [][NextPoolRestart]_vars

\* The task manager on a started pool: SubmitTask, the workers running the
\* closures, and the registry operations.
TMWorkerStep(w) ==
    \/ WorkerBeginLock(w)
    \/ WorkerBeginUnlock(w)
    \/ ClosureStart(w)
    \/ ClosureFinish(w)
    \/ ClosureCount(w)
    \/ WorkerEndLock(w)
    \/ WorkerEndUnlock(w)

NextTM ==
    \/ ExecutorStart
    \/ \E t \in RegIds : SubmitTask(t)
    \/ \E t \in RegIds : CancelTask(t)
    \/ \E t \in RegIds : RetryTask(t)
    \/ \E t \in RegIds, rec \in UpdateRecs : UpdateTask(t, rec)
    \/ \E t \in RegIds : DeleteTask(t)
    \/ \E t \in RegIds, st \in Statuses : UpdateTaskV2(t, st)
    \/ \E t \in RegIds : CancelTaskV2(t)
    \/ \E w \in Workers : TMWorkerStep(w)

SpecTM == Init /\ [][NextTM]_vars

\* The orchestrators on a service with a started executor and a task manager.
ModuleStep(c) ==
    \/ ModuleLogOnly(c)
    \/ ModuleThreadPool(c)
    \/ ModuleThreadPoolDone(c)
    \/ ModuleExecutor(c)
    \/ ModuleExecutorStopPool(c)
    \/ ModuleExecutorStopPoolDone(c)
    \/ ModuleExecutorStopFinish(c)

RestartCall(c) ==
    \/ RestartBegin(c)
    \/ RestartStep(c)
    \/ RestartFinish(c)

ShutdownCall(c) ==
    \/ ShutdownBegin(c)
    \/ StopNewRequests(c)
    \/ WaitForActiveTasks(c)
    \/ TimerFires(c)
    \/ ShutdownWaitDone(c)
    \/ ShutdownFinish(c)

ForceShutdownCall(c) ==
    \/ ForceShutdownBegin(c)
    \/ ForceTerminateSnapshot(c)
    \/ ForceTerminateCancel(c)
    \/ ForceTerminateDone(c)
    \/ ForceShutdownFinish(c)

NextLife ==
    \/ ExecutorStart
    \/ \E t \in 1..MaxLifeTasks : SubmitTask(t)
    \/ \E w \in Workers : TMWorkerStep(w)
    \/ \E w \in Workers : WorkerExit(w)
    \/ \E c \in Callers : RestartCall(c)
    \/ \E c \in Callers : ShutdownCall(c)
    \/ \E c \in Callers : ForceShutdownCall(c)
    \/ \E c \in Callers : ModuleStep(c)
    \/ ShutdownManagerStop

SpecLife == Init /\ [][NextLife]_vars

\* Restart alone, on a service whose configuration file changes on disk.
NextRestart ==
    \/ ExecutorStart
    \/ \E c \in Callers : RestartCall(c)
    \/ \E v \in 1..MaxConfigVersions : WriteConfigFile(v)

SpecRestart == Init /\ [][NextRestart]_vars

\* The interface-based task manager of part_007 on a started pool: SubmitTask,
\* the workers running the closures, UpdateTask and CancelTask callers.
NextTMV2 ==
    \/ ExecutorStart
    \/ \E t \in RegIds : SubmitTask(t)
    \/ \E t \in RegIds, st \in Statuses : UpdateTaskV2(t, st)
    \/ \E t \in RegIds : CancelTaskV2(t)
    \/ \E w \in Workers : TMWorkerStep(w)

SpecTMV2 == Init /\ [][NextTMV2]_vars

\* The same task manager with SubmitTask and CancelTask callers only.
NextTMCancel ==
    \/ ExecutorStart
    \/ \E t \in RegIds : SubmitTask(t)
    \/ \E t \in RegIds : CancelTaskV2(t)
    \/ \E w \in Workers : TMWorkerStep(w)

SpecTMCancel == Init /\ [][NextTMCancel]_vars

\* Goroutines are scheduled fairly and every Execute returns: a worker step
\* that stays possible is eventually taken.  A call that has taken tm.mu has
\* no further step of its own in this model: it returns within the action
\* that took the lock, or it is blocked for good.
FairSpecTMV2 ==
    /\ SpecTMV2
    /\ \A w \in Workers : WF_vars(TMWorkerStep(w))

\* ---------------------------------------------------------------- Service
\* generateTaskID (service.go:214-217): "task-" + time.Now().Format(
\* "20060102150405"): the layout ends at the seconds, so the id is the clock
\* reading cut down to whole seconds.
generateTaskID(t) == <<"task-", t \div TicksPerSecond>>

\* Time passes.
Tick ==
    /\ now < MaxClock
    /\ now' = now + 1
    /\ UNCHANGED created
    /\ UNCHANGED <<poolVars, execVars, callVars, tmVars, orchVars>>
    /\ UNCHANGED <<sandboxVars, monVars, spVars, extVars>>

\* CreateTask (service.go:225-250): the id is generated, Executor.RunTask
\* wraps the request in a ScriptTask and calls BaseExecutor.SubmitTask, which
\* under e.mu rejects it when no pool runs and else hands it to pool.Submit;
\* the id is returned unless RunTask returned an error.
CreateTask ==
    /\ Alive
    /\ Len(created) < MaxCreated
    /\ subPc = "idle"
    /\ eMu = Free
    /\ ePool => IsRunningReady
    /\ IF ~ePool \/ ~IsRunning
       THEN UNCHANGED <<created, wpc, wtask, fate, panicked, accepted>>
       ELSE /\ \E t \in TaskIds :
                 /\ NextTask(t)
                 /\ Submit(t)
                 /\ accepted' = accepted \cup {t}
            /\ created' = Append(created, generateTaskID(now))
    /\ UNCHANGED now
    /\ UNCHANGED <<tpRunning, queueClosed, tpMu, werr, activeWorkers,
                   totalTasks, failedTasks, completedTasks>>
    /\ UNCHANGED <<execVars, stopPc, subPc, subTask, tmVars, orchVars>>
    /\ UNCHANGED <<sandboxVars, monVars, spVars, extVars>>

\* Service.CreateTask callers on a started executor, while time passes and
\* the workers run what was submitted.
NextCreate ==
    \/ ExecutorStart
    \/ Tick
    \/ CreateTask
    \/ \E w \in Workers : WorkerBeginLock(w)
    \/ \E w \in Workers : WorkerBeginUnlock(w)
    \/ \E w \in Workers : WorkerExecute(w)
    \/ \E w \in Workers : WorkerEndLock(w)
    \/ \E w \in Workers : WorkerEndUnlock(w)

SpecCreate == Init /\ [][NextCreate]_vars

\* ---------------------------------------------------------------- sandboxExecutor
\* CreateTaskDirectory (hot_reload.go:173-192): os.MkdirAll of the task's
\* directory, which is then recorded in se.taskDirectories.
CreateTaskDirectory(id) ==
    /\ fsDirs' = fsDirs \cup {id}
    /\ taskDirectories' = taskDirectories \cup {id}
    /\ seErr' = "nil"
    /\ UNCHANGED <<poolVars, execVars, callVars, tmVars, orchVars>>
    /\ UNCHANGED <<idVars, monVars, spVars, extVars>>

\* CleanupTaskDirectory (hot_reload.go:197-220): an id without a recorded
\* directory is an error; else os.RemoveAll (which succeeds on a path that
\* does not exist) and the record is deleted.
CleanupTaskDirectory(id) ==
    /\ IF id \notin taskDirectories
       THEN /\ seErr' = "task directory does not exist"
            /\ UNCHANGED <<taskDirectories, fsDirs>>
       ELSE /\ fsDirs' = fsDirs \ {id}
            /\ taskDirectories' = taskDirectories \ {id}
            /\ seErr' = "nil"
    /\ UNCHANGED <<poolVars, execVars, callVars, tmVars, orchVars>>
    /\ UNCHANGED <<idVars, monVars, spVars, extVars>>

\* A task directory disappears from the disk without the executor's doing
\* (the task's own command or an operator removes it).
DirectoryRemovedOnDisk(id) ==
    /\ id \in fsDirs
    /\ fsDirs' = fsDirs \ {id}
    /\ UNCHANGED <<taskDirectories, seErr>>
    /\ UNCHANGED <<poolVars, execVars, callVars, tmVars, orchVars>>
    /\ UNCHANGED <<idVars, monVars, spVars, extVars>>

NextSandbox ==
    \/ \E id \in SandboxIds : CreateTaskDirectory(id)
    \/ \E id \in SandboxIds : CleanupTaskDirectory(id)
    \/ \E id \in SandboxIds : DirectoryRemovedOnDisk(id)

SpecSandbox == Init /\ [][NextSandbox]_vars

\* ---------------------------------------------------------------- monitor
\* A monitor whose tick also drops the finished tasks from the registry.
MonitorReadTasks_Reaps ==
    /\ monPc = "idle"
    /\ tmMu = Free
    /\ monLog' = <<Cardinality(DOMAIN tasks)>>
    /\ monPc' = "stats"
    /\ tasks' = [t \in {u \in DOMAIN tasks : tasks[u].status \notin Terminal} |-> tasks[t]]
    /\ UNCHANGED <<tmMu, tmTotalTasks, activeTaskCount, tmErr>>
    /\ UNCHANGED <<poolVars, execVars, callVars, orchVars>>
    /\ UNCHANGED <<idVars, sandboxVars, spVars, extVars>>

\* MonitorTasks and a tick of monitorLoop both call updateTaskStatus
\* (task_manager.go:396-412).  Lines 397-401: len(tm.tasks) is read under
\* tm.mu.RLock and logged.
MonitorReadTasks ==
    /\ monPc = "idle"
    /\ tmMu = Free
    /\ monLog' = <<Cardinality(DOMAIN tasks)>>
    /\ monPc' = "stats"
    /\ UNCHANGED <<poolVars, execVars, callVars, tmVars, orchVars>>
    /\ UNCHANGED <<idVars, sandboxVars, spVars, extVars>>

\* Lines 406-411: threadpool.GetStats() copies the counters under
\* tp.mu.RLock; the active workers are logged.
MonitorReadStats ==
    /\ monPc = "stats"
    /\ tpMu = Free
    /\ monLog' = Append(monLog, activeWorkers)
    /\ monPc' = "idle"
    /\ UNCHANGED <<poolVars, execVars, callVars, tmVars, orchVars>>
    /\ UNCHANGED <<idVars, sandboxVars, spVars, extVars>>

\* The task manager of task_manager.go with its monitor, on a started pool.
NextMonitor ==
    \/ ExecutorStart
    \/ \E t \in RegIds : SubmitTask(t)
    \/ \E t \in RegIds : CancelTask(t)
    \/ \E t \in RegIds : DeleteTask(t)
    \/ \E w \in Workers : TMWorkerStep(w)
    \/ MonitorReadTasks
    \/ MonitorReadStats

SpecMonitor == Init /\ [][NextMonitor]_vars

\* ---------------------------------------------------------------- pool.go
\* Submit (pool.go:27-36) runs in the caller's goroutine and takes no lock:
\* p.totalTasks++; p.activeTasks++; task(); and, deferred, p.activeTasks--;
\* p.completedTasks++.  Each ++ or -- is a load followed by a store, and
\* concurrent callers interleave between the two.
SubmitProgram ==
    << [field |-> "totalTasks", delta |-> 1],
       [field |-> "activeTasks", delta |-> 1],
       [field |-> "task()", delta |-> 0],
       [field |-> "activeTasks", delta |-> -1],
       [field |-> "completedTasks", delta |-> 1] >>

SyncPoolField(f) ==
    IF f = "totalTasks" THEN spTotalTasks
    ELSE IF f = "activeTasks" THEN spActiveTasks
    ELSE spCompletedTasks

SubmitIdle == <<0, "idle">>
SubmitDone == <<0, "done">>
AfterStatement(i) == IF i = Len(SubmitProgram) THEN SubmitDone ELSE <<i + 1, "load">>

\* A goroutine calls p.Submit(task).
SyncSubmitBegin(c) ==
    /\ spPc[c] = SubmitIdle
    /\ spPc' = [spPc EXCEPT ![c] = <<1, "load">>]
    /\ UNCHANGED <<spTotalTasks, spActiveTasks, spCompletedTasks, spReg>>
    /\ UNCHANGED <<poolVars, execVars, callVars, tmVars, orchVars>>
    /\ UNCHANGED <<idVars, sandboxVars, monVars, extVars>>

\* The load of a counter update.
SyncSubmitLoad(c) ==
    /\ \E i \in 1..Len(SubmitProgram) :
         /\ spPc[c] = <<i, "load">>
         /\ SubmitProgram[i].field # "task()"
         /\ spReg' = [spReg EXCEPT ![c] = SyncPoolField(SubmitProgram[i].field)]
         /\ spPc' = [spPc EXCEPT ![c] = <<i, "store">>]
    /\ UNCHANGED <<spTotalTasks, spActiveTasks, spCompletedTasks>>
    /\ UNCHANGED <<poolVars, execVars, callVars, tmVars, orchVars>>
    /\ UNCHANGED <<idVars, sandboxVars, monVars, extVars>>

\* The store of a counter update: the loaded value plus or minus one.
SyncSubmitStore(c) ==
    /\ \E i \in 1..Len(SubmitProgram) :
         /\ spPc[c] = <<i, "store">>
         /\ LET f == SubmitProgram[i].field
                v == spReg[c] + SubmitProgram[i].delta
            IN /\ spTotalTasks' = IF f = "totalTasks" THEN v ELSE spTotalTasks
               /\ spActiveTasks' = IF f = "activeTasks" THEN v ELSE spActiveTasks
               /\ spCompletedTasks' = IF f = "completedTasks" THEN v ELSE spCompletedTasks
         /\ spPc' = [spPc EXCEPT ![c] = AfterStatement(i)]
    /\ UNCHANGED spReg
    /\ UNCHANGED <<poolVars, execVars, callVars, tmVars, orchVars>>
    /\ UNCHANGED <<idVars, sandboxVars, monVars, extVars>>

\* task() runs inline and returns.
SyncSubmitTask(c) ==
    /\ \E i \in 1..Len(SubmitProgram) :
         /\ spPc[c] = <<i, "load">>
         /\ SubmitProgram[i].field = "task()"
         /\ spPc' = [spPc EXCEPT ![c] = AfterStatement(i)]
    /\ UNCHANGED <<spTotalTasks, spActiveTasks, spCompletedTasks, spReg>>
    /\ UNCHANGED <<poolVars, execVars, callVars, tmVars, orchVars>>
    /\ UNCHANGED <<idVars, sandboxVars, monVars, extVars>>

\* GetStats (pool.go:42-48): the three counters as they are.
SyncPoolGetStats ==
    [TotalTasks |-> spTotalTasks, ActiveTasks |-> spActiveTasks,
     CompletedTasks |-> spCompletedTasks]

\* Goroutines that each submit one task to the same pool.
NextSyncPool ==
    \E c \in Callers :
        \/ SyncSubmitBegin(c)
        \/ SyncSubmitLoad(c)
        \/ SyncSubmitStore(c)
        \/ SyncSubmitTask(c)

SpecSyncPool == Init /\ [][NextSyncPool]_vars

\* ================================================================ claims

\* the workers between their increment and their decrement of activeWorkers
Executing ==
    {w \in Workers : wpc[w] \in {"counting", "exec", "c_run", "c_count", "returned"}}

\* C2: the number of executing tasks never exceeds maxWorkers: activeWorkers
\* stays within 0..maxWorkers and counts exactly the workers that are between
\* their increment and their decrement, whatever the number of submissions.
C2_ActiveWorkersBounded ==
    /\ activeWorkers \in 0..MaxWorkers
    /\ activeWorkers = Cardinality(Executing)

\* every worker is busy and a further submission has been made
C2_Witness ==
    /\ activeWorkers = MaxWorkers
    /\ \E t \in TaskIds : fate[t] = "dropped"

\* the edges of the task state machine
Edges ==
    {<<"pending", "running">>, <<"running", "completed">>, <<"running", "failed">>,
     <<"running", "cancelled">>, <<"pending", "cancelled">>}
    \cup (Terminal \X {"pending"})

\* C1: every change of a registered task's status follows an edge of the
\* state machine, and a terminal task becomes pending only by RetryTask.
C1_StatusFollowsEdges ==
    [][\A t \in RegIds :
         (t \in DOMAIN tasks /\ t \in DOMAIN tasks' /\ tasks'[t].status # tasks[t].status)
         => /\ <<tasks[t].status, tasks'[t].status>> \in Edges
            /\ tasks[t].status \in Terminal => RetryTask(t)]_vars

\* a caller of Stop() is waiting for the workers
Stopping == stopPc \in {"e_wait", "p_wait"}

\* C3: once Stop() waits for the workers it eventually returns (every
\* Execute returns, goroutines are scheduled fairly).
C3_StopEventuallyReturns == Stopping ~> (~Stopping \/ ~Alive)

\* C4: no Submit ever sends on the closed task queue (Submit after Stop is
\* rejected, it does not panic).
C4_NoSendOnClosedQueue == panicked # "send on closed channel"

\* C5: no task that BaseExecutor.SubmitTask accepted (returned nil for) is
\* dropped by the pool.
C5_AcceptedNeverDropped == \A t \in accepted : fate[t] # "dropped"

\* C6: whenever the pool lock is free,
\* totalTasks = activeWorkers + completedTasks + failedTasks.
C6_CounterSum ==
    tpMu = Free => totalTasks = activeWorkers + completedTasks + failedTasks

\* the lock is free after successful and failed executions, one task running
C6_Witness ==
    /\ tpMu = Free
    /\ failedTasks >= 1
    /\ completedTasks >= 1
    /\ activeWorkers >= 1

\* C7: GetTaskStats().TotalTasks is the number of tasks GetAllTasks() returns,
\* and ActiveTasks + CompletedTasks + FailedTasks never exceeds TotalTasks.
C7_TotalMatchesRegistry ==
    /\ GetTaskStats.TotalTasks = Len(GetAllTasks)
    /\ GetTaskStats.ActiveTasks + GetTaskStats.CompletedTasks + GetTaskStats.FailedTasks
          <= GetTaskStats.TotalTasks

\* after submits, a delete and a cancel: the submit counter is ahead of the
\* registry, which holds a task counted in none of the three status counts
C7_Witness ==
    /\ tmTotalTasks > Cardinality(DOMAIN tasks)
    /\ \E t \in DOMAIN tasks : tasks[t].status = "cancelled"

InRestart == {c \in Callers : lop[c] = "Restart" /\ InSequence(c)}
InShutdown == {c \in Callers : lop[c] = "Shutdown" /\ InSequence(c)}

\* C8: at most one Restart sequence and at most one Shutdown sequence is in
\* progress, each flag is set exactly while its sequence runs, and a call
\* returns the "in progress" error, without taking a step of the sequence,
\* exactly when another caller is inside the sequence of the same operation.
C8_SecondCallRejected ==
    /\ [](/\ Cardinality(InRestart) <= 1
          /\ Cardinality(InShutdown) <= 1
          /\ isRestarting <=> InRestart # {}
          /\ isShuttingDown <=> InShutdown # {})
    /\ [][\A c \in Callers :
            (<<lop[c], lpc[c]>> # <<lop'[c], lpc'[c]>> /\ lpc'[c] = "rejected")
            => \E d \in Callers \ {c} : lop[d] = lop'[c] /\ InSequence(d)]_vars

\* one caller is in the middle of the restart steps, the other was rejected
C8_Witness ==
    \E c, d \in Callers :
        /\ lop[c] = "Restart" /\ lpc[c] = "reloadConfiguration"
        /\ lop[d] = "Restart" /\ lpc[d] = "rejected"
        /\ isRestarting

\* C9: at most one caller is inside a restart or shutdown sequence, whatever
\* the operation (Restart, Shutdown, ForceShutdown).
C9_OneSequenceAtATime == Cardinality({c \in Callers : InSequence(c)}) <= 1

\* C10: a Shutdown that waits for active tasks can leave the wait as soon as
\* no task is pending or running.
C10_WaitEndsWhenTasksTerminal ==
    \A c \in Callers :
        (lop[c] = "Shutdown" /\ lpc[c] = "waiting" /\ ActiveTasks = {})
        => ENABLED ShutdownWaitDone(c)

\* a Shutdown caller that has finished its first step, stopNewRequests
ShutdownStoppedRequests ==
    {c \in Callers : lop[c] = "Shutdown" /\ InSequence(c) /\ Len(ldone[c]) >= 1}

\* C11: once a Shutdown has finished its first step (stop accepting new
\* submissions) and until it returns, no new task is registered.
C11_NoSubmissionAfterFirstStep ==
    [][\A t \in RegIds :
         (t \notin DOMAIN tasks /\ t \in DOMAIN tasks') => ShutdownStoppedRequests = {}]_vars

\* the steps of a whole Shutdown and of a whole Restart, in order
ShutdownSequence == <<"stopNewRequests", "waitForActiveTasks">> \o Modules \o <<"cleanupResources">>
RestartSequence == SubSeq(RestartSteps, 1, Len(RestartSteps) - 1)
SequenceOf(op) == IF op = "Shutdown" THEN ShutdownSequence ELSE RestartSequence
IsPrefix(a, b) == Len(a) <= Len(b) /\ a = SubSeq(b, 1, Len(a))

C13_ForceShutdownStopsExecutor ==
    [][\A c \in Callers :
         (lop[c] = "ForceShutdown" /\ lpc[c] = "cleanupResources" /\ lpc'[c] = "done"
          /\ ~tpRunning')
         => (eStatus' = "stopped" /\ ~ePool')]_vars

C15_ReloadTakesEffect ==
    [][\A c \in Callers :
         (lop[c] = "Restart" /\ lpc[c] = "reloadConfiguration"
          /\ lpc'[c] = "reinitializeModules")
         => GetConfig' = cfgFile]_vars

\* C16: CancelTask with an id that is not registered returns a not-found
\* error and changes neither any task record nor the active-task counter.
C16_CancelUnknownIsNotFound ==
    [][\A t \in RegIds :
         (t \notin DOMAIN tasks /\ (CancelTask(t) \/ CancelTaskV2(t)))
         => (tmErr' = "not found" /\ UNCHANGED <<tasks, activeTaskCount>>)]_vars

\* C17: CancelTask on a task that is already completed, failed or cancelled
\* leaves its record (status, completion time, duration) and the
\* active-task counter as they were.
C17_CancelTerminalIsNoOp ==
    [][\A t \in RegIds :
         (t \in DOMAIN tasks /\ tasks[t].status \in Terminal
          /\ (CancelTask(t) \/ CancelTaskV2(t)))
         => (tasks'[t] = tasks[t] /\ activeTaskCount' = activeTaskCount)]_vars

\* C18: RetryTask on a registered task sets it to pending and clears its
\* progress, error, result, duration and completion time; its name and
\* creation time, every other entry, the counters and the worker pool are
\* unchanged (nothing is submitted).  For an unknown id it returns a
\* not-found error and changes nothing.
C18_RetryResetsRecordOnly ==
    [][\A t \in RegIds :
         RetryTask(t) =>
           /\ UNCHANGED <<poolVars, execVars, callVars, tmTotalTasks, activeTaskCount>>
           /\ IF t \in DOMAIN tasks
              THEN /\ tmErr' = "nil"
                   /\ DOMAIN tasks' = DOMAIN tasks
                   /\ \A u \in DOMAIN tasks \ {t} : tasks'[u] = tasks[u]
                   /\ tasks'[t] = [status |-> "pending", name |-> tasks[t].name,
                                   progress |-> 0, createdAt |-> tasks[t].createdAt,
                                   completedAt |-> 0, duration |-> 0,
                                   error |-> "", result |-> ""]
              ELSE tmErr' = "not found" /\ tasks' = tasks]_vars

\* a task that ran to completion is pending again with its run cleared,
\* next to another registered task that still carries its result
C18_Witness ==
    \E t \in DOMAIN tasks, u \in DOMAIN tasks :
        /\ t # u
        /\ fate[t] = "executed"
        /\ tasks[t] = NewTask
        /\ tasks[u].result = "out"

\* C20: SubmitTask with an id that is already registered returns nil and
\* changes neither the record, the submitted counter, the active counter
\* nor the pool, and the body is not run again; with a new id it registers
\* the task, adds one to the submitted counter and makes one Submit call
\* to the pool for that task.
C20_SubmitOncePerId ==
    [][\A t \in RegIds :
         SubmitTask(t) =>
           /\ tmErr' = "nil"
           /\ \A u \in RegIds \ {t} : fate'[u] = fate[u]
           /\ IF t \in DOMAIN tasks
              THEN UNCHANGED <<tasks, tmTotalTasks, activeTaskCount, poolVars, fate>>
              ELSE /\ tasks' = Put(tasks, t, NewTask)
                   /\ tmTotalTasks' = tmTotalTasks + 1
                   /\ Alive' =>
                        /\ fate'[t] \in {"handed", "dropped"}
                        /\ Cardinality({w \in Workers : wpc'[w] # wpc[w]})
                             = IF fate'[t] = "handed" THEN 1 ELSE 0
                        /\ \A w \in Workers : wpc'[w] # wpc[w] => wtask'[w] = t]_vars

\* a task was registered once and has run to completion, and SubmitTask can
\* be called with its id again
C20_Witness ==
    \E t \in DOMAIN tasks :
        /\ tmTotalTasks = 1
        /\ DOMAIN tasks = {t}
        /\ fate[t] = "executed"
        /\ tasks[t].status = "completed"
        /\ ENABLED SubmitTask(t)

C21_ExecuteErrorRecordedAsFailed ==
    \A w \in Workers :
        (wpc[w] = "c_count" /\ werr[w] /\ wtask[w] \in DOMAIN tasks)
        => tasks[wtask[w]].status = "failed"

\* The workers whose task's Execute is in progress.
InExecute == {w \in Workers : wpc[w] \in {"exec", "c_run"}}

\* The locks: the registry lock, the pool lock, the executor lock.
LocksHeldBy(th) ==
    {l \in {"tm.mu", "tp.mu", "e.mu"} :
        \/ l = "tm.mu" /\ tmMu = th
        \/ l = "tp.mu" /\ tpMu = th
        \/ l = "e.mu" /\ eMu = th}

\* C22: while a task's Execute is running, neither the worker running it
\* nor a thread that waits for the workers (Stop in workerWG.Wait()) holds
\* the registry lock, the pool lock or the executor lock.
C22_NoLockAcrossExecute ==
    InExecute # {} =>
        /\ \A w \in InExecute : LocksHeldBy(W(w)) = {}
        /\ stopPc \in {"e_wait", "p_wait"} => LocksHeldBy(Stopper) = {}

\* C23: every task operation returns to its caller: a call that has taken
\* the registry lock eventually gives it back.
C23_TaskOperationsReturn == (tmMu # Free) ~> (tmMu = Free)

\* C24: task ids are never reused: any two CreateTask calls of a process
\* return different ids.
C24_TaskIdsNeverReused ==
    \A i \in 1..Len(created), j \in 1..Len(created) :
        i # j => created[i] # created[j]

\* C25: UpdateTask and DeleteTask with an id that is not registered return a
\* not-found error and leave the registry unchanged; with a registered id
\* they change that entry only; and an entry leaves the registry only
\* through DeleteTask.
C25_UpdateDeleteUnknownIsError ==
    [][/\ \A t \in RegIds :
            (/\ t \notin DOMAIN tasks
             /\ \/ DeleteTask(t)
                \/ \E rec \in UpdateRecs : UpdateTask(t, rec)
                \/ \E st \in Statuses : UpdateTaskV2(t, st))
            => (tmErr' = "not found" /\ tasks' = tasks)
       /\ \A t \in RegIds :
            (/\ t \in DOMAIN tasks
             /\ \/ DeleteTask(t)
                \/ \E rec \in UpdateRecs : UpdateTask(t, rec)
                \/ \E st \in Statuses : UpdateTaskV2(t, st))
            => \A u \in DOMAIN tasks \ {t} : u \in DOMAIN tasks' /\ tasks'[u] = tasks[u]
       /\ \A t \in DOMAIN tasks \ DOMAIN tasks' : DeleteTask(t)]_vars

\* C26: CleanupTaskDirectory is idempotent: every call succeeds, whether the
\* directory exists, is missing, was already cleaned up or was never
\* created, and afterwards the directory is neither on disk nor recorded.
C26_CleanupIsIdempotent ==
    [][\A id \in SandboxIds :
         CleanupTaskDirectory(id)
         => (seErr' = "nil" /\ id \notin taskDirectories' /\ id \notin fsDirs')]_vars

C28_CancelledStaysCancelled ==
    [][\A w \in Workers :
         (/\ wtask[w] \in DOMAIN tasks
          /\ tasks[wtask[w]].status = "cancelled"
          /\ (ClosureStart(w) \/ ClosureFinish(w)))
         => tasks'[wtask[w]] = tasks[wtask[w]]]_vars

\* The registered tasks that are pending or running.
ActiveRegistered == {t \in DOMAIN tasks : tasks[t].status \in {"pending", "running"}}

\* The runnables that have recorded their task as completed and have not
\* yet executed their tm.activeTaskCount--.
AboutToCount == {w \in Workers : wpc[w] = "c_count"}

\* C29: the active-task counter is never negative and equals the number of
\* registered tasks that are pending or running (a runnable between its
\* status write and its decrement is still counted).
C29_ActiveCounterMatchesRegistry ==
    /\ activeTaskCount >= 0
    /\ activeTaskCount = Cardinality(ActiveRegistered) + Cardinality(AboutToCount)

\* The Submit calls that have returned.
SubmitsFinished == {c \in Callers : spPc[c] = SubmitDone}

\* C30: pool counter updates are never lost: when every submitted task has
\* finished, the pool reports total == N, completed == N and active == 0
\* for the N tasks submitted.
C30_NoLostCounterUpdate ==
    (\A c \in Callers : spPc[c] \in {SubmitIdle, SubmitDone}) =>
        /\ SyncPoolGetStats.TotalTasks = Cardinality(SubmitsFinished)
        /\ SyncPoolGetStats.CompletedTasks = Cardinality(SubmitsFinished)
        /\ SyncPoolGetStats.ActiveTasks = 0

\* The worker goroutines that have been started and have not returned.
AliveWorkers == {w \in Workers : wpc[w] \notin {"none", "exited"}}

\* C31: whenever IsRunning() returns true, exactly maxWorkers worker loops
\* are alive, also after Stop() followed by Start() on the same pool.
C31_RunningPoolHasMaxWorkers ==
    (Alive /\ ePool /\ IsRunningReady /\ IsRunning)
    => Cardinality(AliveWorkers) = cfgMaxWorkers

\* HealthCheck (executor.go:119-123): e.pool != nil && e.pool.IsRunning().
HealthCheck == ePool /\ IsRunning

\* C32: whenever the executor can be observed (no Start or Stop holds e.mu,
\* no pool call holds tp.mu), Status is "running" exactly when HealthCheck()
\* is true, and "stopped" otherwise.
C32_StatusMatchesHealthCheck ==
    (Alive /\ eMu = Free /\ IsRunningReady)
    => /\ eStatus \in {"running", "stopped"}
       /\ eStatus = "running" <=> HealthCheck

\* ---------------------------------------------------------------- part_005
\* GracefulShutdown (part_005:35-45), under sm.mu: a no-op when isShuttingDown;
\* otherwise close(sm.shutdownChan), isShuttingDown = true, sm.wg.Wait() (no
\* code adds to sm.wg, so it returns at once) and sm.cancel().  No statement
\* sets isShuttingDown back to false.
GracefulShutdownV2(c) ==
    /\ lpc[c] \in Returned
    /\ IF isShuttingDown
       THEN /\ Calls(c, "GracefulShutdown", "rejected")
            /\ UNCHANGED <<isShuttingDown, smCtxDone, shutdownChanClosed>>
       ELSE /\ shutdownChanClosed' = TRUE
            /\ isShuttingDown' = TRUE
            /\ smCtxDone' = TRUE
            /\ Calls(c, "GracefulShutdown", "done")
    /\ UNCHANGED <<isRestarting, lidx, timedOut, todo>>
    /\ UNCHANGED <<poolVars, execVars, callVars, tmVars>>
    /\ UNCHANGED <<cfgVars, coreSvcVars, mgrVars, regVars, lockVars>>

\* ForceShutdown (part_005:47-55), under sm.mu: a no-op when isShuttingDown;
\* otherwise sm.cancel() and isShuttingDown = true.
ForceShutdownV2(c) ==
    /\ lpc[c] \in Returned
    /\ IF isShuttingDown
       THEN /\ Calls(c, "ForceShutdown", "rejected")
            /\ UNCHANGED <<isShuttingDown, smCtxDone>>
       ELSE /\ smCtxDone' = TRUE
            /\ isShuttingDown' = TRUE
            /\ Calls(c, "ForceShutdown", "done")
    /\ UNCHANGED <<isRestarting, lidx, timedOut, todo, shutdownChanClosed>>
    /\ UNCHANGED <<poolVars, execVars, callVars, tmVars>>
    /\ UNCHANGED <<cfgVars, coreSvcVars, mgrVars, regVars, lockVars>>

\* The restart manager of part_004 and the shutdown manager of part_005 in
\* one process, each called from MaxCallers goroutines.
NextShutdownV2 ==
    \/ ExecutorStart
    \/ \E c \in Callers : RestartCall(c)
    \/ \E c \in Callers : GracefulShutdownV2(c)
    \/ \E c \in Callers : ForceShutdownV2(c)

SpecShutdownV2 == Init /\ [][NextShutdownV2]_vars

ShutdownOps == {"Shutdown", "GracefulShutdown", "ForceShutdown"}

\* C33: isRestarting is true only while some Restart() call is executing and
\* isShuttingDown only while some shutdown call is executing: once the call
\* has returned the flag is false again, so a later call is accepted.
C33_FlagOnlyWhileExecuting ==
    /\ isRestarting => \E c \in Callers : lop[c] = "Restart" /\ InSequence(c)
    /\ isShuttingDown => \E c \in Callers : lop[c] \in ShutdownOps /\ InSequence(c)

\* ------------------------------------------- manager Start, Stop, monitorLoop
\* taskManager.Start (task_manager.go:170-185) and processManager.Start
\* (process_manager.go:129-144), under the manager's mu: nil when running;
\* otherwise running = true and go monitorLoop().  The context is the one made
\* by the constructor: Start makes none.
ManagerStart(m) ==
    /\ ~mgrRunning[m] => mgrLoops[m] < MaxLoops
    /\ IF mgrRunning[m]
       THEN UNCHANGED <<mgrRunning, mgrLoops>>
       ELSE /\ mgrRunning' = [mgrRunning EXCEPT ![m] = TRUE]
            /\ mgrLoops' = [mgrLoops EXCEPT ![m] = @ + 1]
    /\ UNCHANGED <<mgrCtxDone, mgrTicks>>
    /\ UNCHANGED <<poolVars, execVars, callVars, tmVars, orchVars>>
    /\ UNCHANGED <<coreSvcVars, sm2Vars, regVars, lockVars>>

\* taskManager.Stop (task_manager.go:191-208) and processManager.Stop
\* (process_manager.go:150-167), under mu: nil when not running; otherwise
\* running = false, cancel() and ticker.Stop().
ManagerStop(m) ==
    /\ IF ~mgrRunning[m]
       THEN UNCHANGED <<mgrRunning, mgrCtxDone>>
       ELSE /\ mgrRunning' = [mgrRunning EXCEPT ![m] = FALSE]
            /\ mgrCtxDone' = [mgrCtxDone EXCEPT ![m] = TRUE]
    /\ UNCHANGED <<mgrLoops, mgrTicks>>
    /\ UNCHANGED <<poolVars, execVars, callVars, tmVars, orchVars>>
    /\ UNCHANGED <<coreSvcVars, sm2Vars, regVars, lockVars>>

\* monitorLoop (task_manager.go:372-390, process_manager.go:295-313): the
\* select takes `case <-ticker.C` and runs the periodic update.  A tick that
\* was already pending may still be taken after the context was cancelled.
MonitorTick(m) ==
    /\ mgrLoops[m] > 0
    /\ mgrTicks[m] < MaxTicks
    /\ mgrTicks' = [mgrTicks EXCEPT ![m] = @ + 1]
    /\ UNCHANGED <<mgrRunning, mgrCtxDone, mgrLoops>>
    /\ UNCHANGED <<poolVars, execVars, callVars, tmVars, orchVars>>
    /\ UNCHANGED <<coreSvcVars, sm2Vars, regVars, lockVars>>

\* monitorLoop: the select takes `case <-ctx.Done()` and the goroutine returns.
MonitorExit(m) ==
    /\ mgrLoops[m] > 0
    /\ mgrCtxDone[m]
    /\ mgrLoops' = [mgrLoops EXCEPT ![m] = @ - 1]
    /\ UNCHANGED <<mgrRunning, mgrCtxDone, mgrTicks>>
    /\ UNCHANGED <<poolVars, execVars, callVars, tmVars, orchVars>>
    /\ UNCHANGED <<coreSvcVars, sm2Vars, regVars, lockVars>>

NextManagers ==
    \/ \E m \in Managers : ManagerStart(m)
    \/ \E m \in Managers : ManagerStop(m)
    \/ \E m \in Managers : MonitorTick(m)
    \/ \E m \in Managers : MonitorExit(m)

SpecManagers == Init /\ [][NextManagers]_vars

\* C34: whenever a manager's running flag is true, exactly one monitor loop
\* of it is alive and ticking, i.e. waiting on a context that is not
\* cancelled -- also after Start, Stop, Start.
C34_RunningHasOneTickingLoop ==
    \A m \in Managers : mgrRunning[m] => (mgrLoops[m] = 1 /\ ~mgrCtxDone[m])

\* ------------------------------------------------- Service.UpdateTask, IDs
\* The record Service.UpdateTask of internal/service/service.go:54-57 builds:
\* &taskmanager.TaskInfo{Name: req.Name, Status: req.Status}; every other
\* field, the ID included, keeps its zero value.
ServiceRec(status) ==
    [status |-> status, name |-> "req", progress |-> 0, createdAt |-> 0,
     completedAt |-> 0, duration |-> 0, error |-> "", result |-> ""]

\* Service.UpdateTask (service.go:42-58) calling taskManager.UpdateTask
\* (task_manager.go:418-431): tm.tasks[taskID] = task for a known id.
ServiceUpdateTask(t, status) ==
    /\ Alive
    /\ tmMu = Free
    /\ IF t \notin DOMAIN tasks
       THEN tmErr' = "not found" /\ UNCHANGED <<tasks, recID>>
       ELSE /\ tasks' = [tasks EXCEPT ![t] = ServiceRec(status)]
            /\ recID' = [recID EXCEPT ![t] = EmptyID]
            /\ tmErr' = "nil"
    /\ UNCHANGED <<poolVars, execVars, callVars, tmMu, tmTotalTasks, activeTaskCount>>
    /\ UNCHANGED <<orchVars, coreSvcVars, sm2Vars, mgrVars, lockVars>>

\* The registry under submit, update (through either Service.UpdateTask),
\* cancel, retry and delete, with the workers running the submitted closures.
NextRegistry ==
    \/ ExecutorStart
    \/ \E t \in RegIds : SubmitTask(t)
    \/ \E t \in RegIds : CancelTask(t)
    \/ \E t \in RegIds : RetryTask(t)
    \/ \E t \in RegIds, rec \in ServiceUpdateRecs : UpdateTask(t, rec)
    \/ \E t \in RegIds, st \in Statuses : ServiceUpdateTask(t, st)
    \/ \E t \in RegIds : DeleteTask(t)
    \/ \E w \in Workers : TMWorkerStep(w)

SpecRegistry == Init /\ [][NextRegistry]_vars

\* C35: for every entry of the registry, the ID of the stored record equals
\* the key it is stored under.
C35_RecordIDEqualsKey ==
    /\ DOMAIN recID = DOMAIN tasks
    /\ \A t \in DOMAIN tasks : recID[t] = t

\* ------------------------------------------------------- FileLockManager
\* handleFileOperation (instance.go:31-32) calls GetLock(path); GetLock
\* (lock.go:22-28) looks the path up under m.mu.RLock() and returns the mutex
\* it finds, or goes on to create one.
GetLockRead(r, p) ==
    /\ fpc[r] = "idle"
    /\ fpath' = [fpath EXCEPT ![r] = p]
    /\ IF locks[p] # NoMutex
       THEN /\ flock' = [flock EXCEPT ![r] = locks[p]]
            /\ fpc' = [fpc EXCEPT ![r] = "lock"]
       ELSE /\ fpc' = [fpc EXCEPT ![r] = "create"]
            /\ UNCHANGED flock
    /\ UNCHANGED <<locks, nextMutex, held>>
    /\ UNCHANGED <<poolVars, execVars, callVars, tmVars, orchVars>>
    /\ UNCHANGED <<coreSvcVars, sm2Vars, mgrVars, regVars>>

\* GetLock (lock.go:31-38), under m.mu.Lock(): looks the path up again, stores
\* a new mutex when there is none, and returns the mutex of the map.
GetLockCreate(r) ==
    /\ fpc[r] = "create"
    /\ locks[fpath[r]] = NoMutex => nextMutex <= MaxMutexes
    /\ IF locks[fpath[r]] = NoMutex
       THEN /\ locks' = [locks EXCEPT ![fpath[r]] = nextMutex]
            /\ nextMutex' = nextMutex + 1
       ELSE UNCHANGED <<locks, nextMutex>>
    /\ flock' = [flock EXCEPT ![r] = locks'[fpath[r]]]
    /\ fpc' = [fpc EXCEPT ![r] = "lock"]
    /\ UNCHANGED <<held, fpath>>
    /\ UNCHANGED <<poolVars, execVars, callVars, tmVars, orchVars>>
    /\ UNCHANGED <<coreSvcVars, sm2Vars, mgrVars, regVars>>

\* handleFileOperation (instance.go:33): lock.Lock() returns once the mutex
\* is free; the request then checks the permission and runs op().
FileLockAcquire(r) ==
    /\ fpc[r] = "lock"
    /\ held[flock[r]] = NoRequest
    /\ held' = [held EXCEPT ![flock[r]] = r]
    /\ fpc' = [fpc EXCEPT ![r] = "op"]
    /\ UNCHANGED <<locks, nextMutex, fpath, flock>>
    /\ UNCHANGED <<poolVars, execVars, callVars, tmVars, orchVars>>
    /\ UNCHANGED <<coreSvcVars, sm2Vars, mgrVars, regVars>>

\* handleFileOperation (instance.go:34-49): the response is written and the
\* deferred lock.Unlock() runs.
FileOperationDone(r) ==
    /\ fpc[r] = "op"
    /\ held' = [held EXCEPT ![flock[r]] = NoRequest]
    /\ fpc' = [fpc EXCEPT ![r] = "idle"]
    /\ flock' = [flock EXCEPT ![r] = NoMutex]
    /\ UNCHANGED <<locks, nextMutex, fpath>>
    /\ UNCHANGED <<poolVars, execVars, callVars, tmVars, orchVars>>
    /\ UNCHANGED <<coreSvcVars, sm2Vars, mgrVars, regVars>>

\* ReleaseLock (lock.go:42-46), under m.mu.Lock(): delete(m.locks, filePath),
\* whoever holds or waits for the mutex.
ReleaseLock(p) ==
    /\ locks' = [locks EXCEPT ![p] = NoMutex]
    /\ UNCHANGED <<nextMutex, held, fpc, fpath, flock>>
    /\ UNCHANGED <<poolVars, execVars, callVars, tmVars, orchVars>>
    /\ UNCHANGED <<coreSvcVars, sm2Vars, mgrVars, regVars>>

NextFileLock ==
    \/ \E r \in Requests, p \in Paths : GetLockRead(r, p)
    \/ \E r \in Requests : GetLockCreate(r)
    \/ \E r \in Requests : FileLockAcquire(r)
    \/ \E r \in Requests : FileOperationDone(r)
    \/ \E p \in Paths : ReleaseLock(p)

SpecFileLock == Init /\ [][NextFileLock]_vars

\* C36: no two requests are inside the locked part of handleFileOperation
\* for the same path at the same time.
C36_SamePathMutuallyExclusive ==
    \A r1, r2 \in Requests :
        (r1 # r2 /\ fpc[r1] = "op" /\ fpc[r2] = "op") => fpath[r1] # fpath[r2]

====
